---- MODULE Spec2Model ----
(***************************************************************************)
(* Response capture and multi-provider dispatch of Proxima.                *)
(*                                                                         *)
(*  - the page-side fetch interceptor (electron/browser-manager.cjs)       *)
(*  - the host-side response capture, getProviderResponse                  *)
(*    (electron/rest-api.cjs)                                              *)
(*  - the SmartRouter of the MCP server (src/mcp-server-v3.js)             *)
(*                                                                         *)
(* Texts are run-length encoded: a text is a sequence of runs <<c, n>>,    *)
(* n >= 1 copies of the character c, adjacent runs of different characters.*)
(***************************************************************************)
EXTENDS Integers, Sequences, FiniteSets, TLC

\* ------------------------------------------------------------------------
\* Bounds of the model
\* ------------------------------------------------------------------------
MaxStreams == 2
MaxLines == 1
MaxChunks == 2

MaxCalls == 2

MaxRequests == 3
MaxChunkLines == 1
MaxDataEvents == 3
MaxHostRequests == 3
MaxCallers == 2
MaxDispatches == 3

\* concurrent sendToPerplexity calls
MaxSenders == 2

\* queryProvider calls of the REST API in one run, and calls in flight
MaxStatCalls == 7

MaxInFlight == 2

\* the largest maxRetries option of the SDK
MaxRetriesOption == 4

\* ------------------------------------------------------------------------
\* Providers
\* ------------------------------------------------------------------------
Providers == {"chatgpt", "claude", "perplexity", "gemini"}

\* window.__proxima_active_stream_id = null
NoStream == 0

\* ------------------------------------------------------------------------
\* Text helpers
\* ------------------------------------------------------------------------
Empty == << >>

\* the text of n copies of the character c
Rep(c, n) == IF n = 0 THEN << >> ELSE << <<c, n>> >>

Min(a, b) == IF a < b THEN a ELSE b

\* String.prototype.length
RECURSIVE JsLen(_)
JsLen(t) == IF t = << >> THEN 0 ELSE t[1][2] + JsLen(Tail(t))

\* string concatenation
Cat(a, b) ==
    IF a = << >> THEN b
    ELSE IF b = << >> THEN a
    ELSE IF a[Len(a)][1] = b[1][1]
         THEN SubSeq(a, 1, Len(a) - 1) \o << <<b[1][1], a[Len(a)][2] + b[1][2]>> >> \o Tail(b)
         ELSE a \o b

\* String.prototype.substring(0, n)
RECURSIVE Substring0(_, _)
Substring0(t, n) ==
    IF t = << >> \/ n <= 0 THEN << >>
    ELSE IF t[1][2] >= n THEN << <<t[1][1], n>> >>
    ELSE <<t[1]>> \o Substring0(Tail(t), n - t[1][2])

\* String.prototype.startsWith
StartsWith(t, p) == Substring0(t, JsLen(p)) = p

\* String.prototype.trim
Trim(t) ==
    LET a == IF t # << >> /\ t[1][1] = " " THEN Tail(t) ELSE t
    IN IF a # << >> /\ a[Len(a)][1] = " " THEN SubSeq(a, 1, Len(a) - 1) ELSE a

\* the characters a stream delivers identify the stream
StreamChar(s) == IF s = 1 THEN "x" ELSE IF s = 2 THEN "y" ELSE "z"

\* `resp.length > 50` of the late network check
LateCheckMinLen == 50

\* the texts one server event of stream s can carry, of the lengths lens
EventTexts(s, lens) == {Rep(StreamChar(s), n) : n \in lens}

\* ------------------------------------------------------------------------
\* State
\* ------------------------------------------------------------------------
VARIABLES
    provider,        \* the provider whose page this is
    installed,       \* window.__proxima_fetch_intercepted
    fetchWrap,       \* layers: how many times window.fetch is wrapped; rerun: history
    captured,        \* window.__proxima_captured_response
    isStreaming,     \* window.__proxima_is_streaming
    activeStreamId,  \* window.__proxima_active_stream_id
    blocks,          \* window.__proxima_blocks (Claude parser)
    streams,         \* the read loops of the intercepted responses
    nextStream,      \* the id the next intercepted response gets
    fpGlobal,        \* global.<provider>OldFingerprint
    fpCountGlobal,   \* global.perplexityOldBlockCount
    gp,              \* the frame of the running send / getProviderResponse
    result,          \* what getProviderResponse returned or threw
    ghost,           \* history of the turn, read by the properties only
    enabled,         \* the enabled-provider set of the settings file
    stats,           \* SmartRouter.stats
    calls,           \* the frames of the smartQuery calls
    qm,              \* the frame of a queryMultiple call
    ipc,             \* the IPCClient of the MCP server and its send() promises
    ipcLog,          \* history: the last event of the client and its lines
    ipcServer,       \* one connection of the IPC server of the host
    session,         \* the provider's view in the host and what is in flight on it
    chat,            \* AIProvider (its cache) and the running chat / queryProvider calls
    restApi,         \* the last /v1/chat/completions request of the REST API
    paste,           \* the system clipboard and the running sendToPerplexity calls
    bm,              \* BrowserManager: its views, activeProvider, isDestroyed
    sdk,             \* the running Proxima._fetchWithRetry call of the SDK
    restStats        \* the stats object of the REST API and the running queryProvider calls

pageVars == <<installed, fetchWrap, captured, isStreaming, activeStreamId, blocks, streams, nextStream>>

hostVars == <<fpGlobal, fpCountGlobal, gp, result, ghost>>

captureVars == <<provider, pageVars, hostVars>>

routerVars == <<enabled, stats, calls>>

ipcVars == <<ipc, ipcLog>>

chatVars == <<session, chat>>

\* the state of the host's REST API and BrowserManager, and of the SDK
apiVars == <<restApi, paste, bm, sdk, restStats>>

serviceVars == <<qm, ipcVars, ipcServer, chatVars, apiVars>>

\* what the parallel dispatch leaves alone, what the IPC client leaves alone
notMultiVars == <<captureVars, routerVars, ipcVars, ipcServer, chatVars, apiVars>>

notIpcVars == <<captureVars, routerVars, qm, ipcServer, chatVars, apiVars>>

notServerVars == <<captureVars, routerVars, qm, ipcVars, chatVars, apiVars>>

notChatVars == <<captureVars, routerVars, qm, ipcVars, ipcServer, apiVars>>

notRestVars == <<captureVars, stats, calls, qm, ipcVars, ipcServer, chatVars, paste, bm, sdk, restStats>>

notPasteVars == <<captureVars, routerVars, qm, ipcVars, ipcServer, chatVars, restApi, bm, sdk, restStats>>

notBmVars == <<captureVars, routerVars, qm, ipcVars, ipcServer, chatVars, restApi, paste, sdk, restStats>>

notSdkVars == <<captureVars, routerVars, qm, ipcVars, ipcServer, chatVars, restApi, paste, bm, restStats>>

notStatsVars == <<captureVars, routerVars, qm, ipcVars, ipcServer, chatVars, restApi, paste, bm, sdk>>

vars == <<captureVars, routerVars, serviceVars>>

StreamIds == 1..MaxStreams

BlockIdx == {0, 1}

NoBlocks == [b \in BlockIdx |-> Empty]

\* ------------------------------------------------------------------------
\* The provider parsers: one line of a chunk
\*   a parser state is [fullText, blocks, isStreaming]
\* ------------------------------------------------------------------------
\* the longest block, the first one on a tie (for..in with a strict >)
BestBlock(bl) ==
    IF JsLen(bl[1]) > JsLen(bl[0]) THEN bl[1] ELSE bl[0]

\* the events a provider's parser recognises in a line
LineEvents(p, s, lens) ==
    LET T == EventTexts(s, lens) IN
    [kind : {"garbage"}, text : {Empty}, idx : {0}]
    \cup
    (CASE p = "chatgpt" ->
            [kind : {"parts", "v2"}, text : T, idx : {0}]
       [] p = "perplexity" ->
            [kind : {"text"}, text : T, idx : {0}]
            \cup [kind : {"raw"}, text : {t \in T : JsLen(t) > 10}, idx : {0}]
       [] p = "gemini" ->
            [kind : {"candidates", "text", "array"}, text : T, idx : {0}]
       [] p = "claude" ->
            [kind : {"block_start", "message_stop"}, text : {Empty}, idx : BlockIdx]
            \cup [kind : {"block_delta"}, text : T, idx : BlockIdx]
            \cup [kind : {"completion"}, text : T, idx : {0}])

ParseLine(p, ps, ev) ==
    CASE ev.kind = "garbage" -> ps
      \* ChatGPT: message.content.parts replaces only when longer
      [] ev.kind = "parts" ->
            IF JsLen(ev.text) > JsLen(ps.fullText)
            THEN [ps EXCEPT !.fullText = ev.text] ELSE ps
      \* ChatGPT v2 delta, Gemini candidate parts, Perplexity raw text,
      \* Claude data.completion: appended
      [] ev.kind \in {"v2", "candidates", "raw", "completion"} ->
            [ps EXCEPT !.fullText = Cat(ps.fullText, ev.text)]
      \* Perplexity text/answer/output/chunks, Gemini text/modelOutput: replaced
      [] ev.kind = "text" ->
            [ps EXCEPT !.fullText = ev.text]
      \* Gemini raw JSON array: replaces only when longer
      [] ev.kind = "array" ->
            IF JsLen(ev.text) > JsLen(ps.fullText)
            THEN [ps EXCEPT !.fullText = ev.text] ELSE ps
      [] ev.kind = "block_start" ->
            [ps EXCEPT !.blocks[ev.idx] = Empty]
      [] ev.kind = "block_delta" ->
            LET bl == [ps.blocks EXCEPT ![ev.idx] = Cat(@, ev.text)] IN
            [ps EXCEPT !.blocks = bl, !.fullText = BestBlock(bl)]
      [] ev.kind = "message_stop" ->
            [ps EXCEPT !.blocks = NoBlocks, !.isStreaming = FALSE]

RECURSIVE ParseLines(_, _, _)
ParseLines(p, ps, lines) ==
    IF lines = << >> THEN ps
    ELSE ParseLines(p, ParseLine(p, ps, Head(lines)), Tail(lines))

\* the chunks a stream can deliver: 1..MaxLines lines
RECURSIVE SeqsUpTo(_, _)
SeqsUpTo(S, n) ==
    IF n = 0 THEN {<< >>}
    ELSE LET R == SeqsUpTo(S, n - 1) IN
         R \cup {Append(r, e) : r \in {q \in R : Len(q) = n - 1}, e \in S}

Chunks(p, s, lens) == SeqsUpTo(LineEvents(p, s, lens), MaxLines) \ {<< >>}

\* ------------------------------------------------------------------------
\* The interceptor
\* ------------------------------------------------------------------------
\* the install script without its guard
InstallInterceptorNoGuard ==
    /\ installed' = TRUE
    /\ captured' = Empty
    /\ isStreaming' = FALSE
    /\ fetchWrap' = [layers |-> fetchWrap.layers + 1,
                     rerun |-> fetchWrap.rerun \/ JsLen(captured) > 0 \/ isStreaming]
    /\ fetchWrap.layers < 2
    /\ UNCHANGED <<provider, activeStreamId, blocks, streams, nextStream, hostVars, routerVars, serviceVars>>

\* the install script, run on dom-ready. rerun: the script ran again on a
\* page load whose buffer held text or whose stream was active
InstallInterceptor ==
    /\ IF installed
       THEN /\ UNCHANGED <<installed, captured, isStreaming>>
            /\ fetchWrap' = [fetchWrap EXCEPT !.rerun = @ \/ JsLen(captured) > 0 \/ isStreaming]
       ELSE /\ installed' = TRUE
            /\ captured' = Empty
            /\ isStreaming' = FALSE
            /\ fetchWrap' = [layers |-> fetchWrap.layers + 1, rerun |-> FALSE]
    /\ UNCHANGED <<provider, activeStreamId, blocks, streams, nextStream, hostVars, routerVars, serviceVars>>

\* the page navigates or reloads: the window object is a new one and the
\* read loops of the old one are gone
PageReload ==
    /\ installed' = FALSE
    /\ fetchWrap' = [layers |-> 0, rerun |-> FALSE]
    /\ captured' = Empty
    /\ isStreaming' = FALSE
    /\ activeStreamId' = NoStream
    /\ blocks' = NoBlocks
    /\ streams' = [s \in StreamIds |->
                     IF streams[s].st = "reading"
                     THEN [streams[s] EXCEPT !.st = "dead"] ELSE streams[s]]
    /\ UNCHANGED <<provider, nextStream, hostVars, routerVars, serviceVars>>

\* the wrapped fetch sees a matched, streamed response
StreamStart(maxStreams) ==
    /\ installed
    /\ nextStream <= maxStreams
    /\ activeStreamId' = nextStream
    /\ captured' = IF provider # "claude" THEN Empty ELSE captured
    /\ isStreaming' = TRUE
    /\ streams' = [streams EXCEPT ![nextStream] =
                     [st |-> "reading", chunks |-> 0,
                      fullText |-> IF provider = "claude" THEN captured ELSE Empty]]
    /\ nextStream' = nextStream + 1
    /\ UNCHANGED <<provider, installed, fetchWrap, blocks, hostVars, routerVars, serviceVars>>

\* may this stream overwrite the shared buffer
MayOverwrite(s, fullText, buf, active) ==
    active = s \/ JsLen(fullText) > JsLen(buf)

\* one reader.read() that delivers a chunk: parse its lines, then write
StreamChunk(s, chunk, maxChunks) ==
    /\ streams[s].st = "reading"
    /\ streams[s].chunks < maxChunks
    /\ LET ps0 == [fullText |-> streams[s].fullText, blocks |-> blocks,
                   isStreaming |-> isStreaming]
           ps == ParseLines(provider, ps0, chunk)
       IN /\ streams' = [streams EXCEPT ![s].fullText = ps.fullText,
                                        ![s].chunks = @ + 1]
          /\ blocks' = ps.blocks
          /\ isStreaming' = ps.isStreaming
          /\ captured' = IF MayOverwrite(s, ps.fullText, captured, activeStreamId)
                         THEN ps.fullText ELSE captured
    /\ UNCHANGED <<provider, installed, fetchWrap, activeStreamId, nextStream, hostVars, routerVars, serviceVars>>

\* the finally block without the check for the active stream
StreamEndOfAnyStream(s) ==
    /\ streams[s].st = "reading"
    /\ streams' = [streams EXCEPT ![s].st = "done"]
    /\ isStreaming' = IF provider # "claude" THEN FALSE ELSE isStreaming
    /\ UNCHANGED <<provider, installed, fetchWrap, captured, activeStreamId, blocks, nextStream, hostVars, routerVars, serviceVars>>

\* reader.read() reports done, or throws: the finally block
StreamEnd(s) ==
    /\ streams[s].st = "reading"
    /\ streams' = [streams EXCEPT ![s].st = "done"]
    /\ isStreaming' = IF provider # "claude" /\ activeStreamId = s
                      THEN FALSE ELSE isStreaming
    /\ UNCHANGED <<provider, installed, fetchWrap, captured, activeStreamId, blocks, nextStream, hostVars, routerVars, serviceVars>>


\* ------------------------------------------------------------------------
\* The host: sendMessageToProvider, getResponseWithTypingStatus and
\* getProviderResponse
\* ------------------------------------------------------------------------
MaxWaitSeconds(p) == IF p = "claude" THEN 600 ELSE 120

maxPolls(p) == MaxWaitSeconds(p) * 2

\* `if (i > 40)` of the fast path's catch
ErrorPollLimit == 40

\* the no-stream exit one poll later
NoStreamPollsOneMore == 3 + 1

\* `i > 3` of the fast path's no-stream check
NoStreamPolls == 3

maxTypingWait(p) == IF p = "claude" THEN 600 ELSE 120

\* the threshold compared with > in place of >=: one read less
STABLE_THRESHOLD_OneLess(p) == IF p = "perplexity" THEN 4 ELSE 2

STABLE_THRESHOLD(p) == IF p = "perplexity" THEN 5 ELSE 3

MAX_POLLS(p) == IF p \in {"claude", "perplexity"} THEN 60 ELSE 40

\* substring(0, 200) of a fingerprint, substring(0, 100) of its comparison
FingerprintLen == 200

FingerprintPrefixLen == 100

\* textContent.substring(0, 200).trim()
FingerprintOf(t) == Trim(Substring0(t, FingerprintLen))

\* 'No response captured'
Sentinel == << <<"No response captured", 1>> >>

NoRead == << <<"no read yet", 1>> >>

IdleFrame ==
    [pc |-> "idle", i |-> 0, snap |-> Empty,
     oldFingerprint |-> Empty, oldBlockCount |-> 0,
     lastText |-> Empty, stableCount |-> 0, foundNewResponse |-> FALSE]

NoResult == [kind |-> "none", path |-> "none", text |-> Empty]

\* earlier: the streams whose read loop was running when the capture state
\* of the turn was reset
NewGhost ==
    [sentFp |-> Empty, lastRead |-> NoRead, readRun |-> 0,
     accepted |-> NoRead, acceptedRun |-> 0,
     fastExit |-> "none", lateStreaming |-> FALSE, firstDone |-> NoRead,
     earlier |-> {}]

\* Perplexity: the candidate is a new answer by its block count or fingerprint
PerplexityIsNew(oldFp, oldCount, cur) ==
    LET blockCountIncreased == oldCount > 0 /\ cur.count > oldCount
        fingerprintChanged ==
            /\ oldFp # Empty
            /\ cur.fingerprint # oldFp
            /\ ~StartsWith(oldFp, Substring0(cur.fingerprint, FingerprintPrefixLen))
            /\ ~StartsWith(cur.fingerprint, Substring0(oldFp, FingerprintPrefixLen))
    IN blockCountIncreased \/ fingerprintChanged

\* Claude: the candidate is the answer of the previous turn
ClaudeIsStale(oldFp, text) ==
    LET currentFingerprint == FingerprintOf(text) IN
    \/ currentFingerprint = oldFp
    \/ StartsWith(oldFp, Substring0(currentFingerprint, FingerprintPrefixLen))
    \/ StartsWith(currentFingerprint, Substring0(oldFp, FingerprintPrefixLen))

\* sendMessageToProvider, first part: the script that resets the capture
\* state of the page; its failure is swallowed
ResetCaptureState(ok) ==
    /\ gp.pc = "idle"
    /\ IF ok
       THEN /\ captured' = Empty
            /\ isStreaming' = FALSE
            /\ activeStreamId' = NoStream
            /\ blocks' = NoBlocks
       ELSE UNCHANGED <<captured, isStreaming, activeStreamId, blocks>>
    /\ gp' = [IdleFrame EXCEPT !.pc = "sending"]
    /\ result' = NoResult
    /\ ghost' = [NewGhost EXCEPT !.earlier =
                    IF ok THEN {s \in DOMAIN streams : streams[s].st = "reading"} ELSE {}]
    /\ UNCHANGED <<provider, installed, fetchWrap, streams, nextStream, fpGlobal, fpCountGlobal, routerVars, serviceVars>>

\* sendTo<Provider>: store the fingerprint of the visible answer, then type
\* and submit the message
SendToProvider(fp, count) ==
    /\ gp.pc = "sending"
    /\ fpGlobal' = fp
    /\ fpCountGlobal' = IF provider = "perplexity" THEN count ELSE fpCountGlobal
    /\ gp' = [gp EXCEPT !.pc = "sent"]
    /\ ghost' = [ghost EXCEPT !.sentFp = fp]
    /\ UNCHANGED <<provider, pageVars, result, routerVars, serviceVars>>

\* sendTo<Provider> throws: the dispatch fails before anything was submitted
SendToProviderThrows ==
    /\ gp.pc = "sending"
    /\ gp' = [gp EXCEPT !.pc = "done"]
    /\ result' = [kind |-> "error", path |-> "send", text |-> Empty]
    /\ UNCHANGED <<provider, pageVars, fpGlobal, fpCountGlobal, ghost, routerVars, serviceVars>>

\* getResponseWithTypingStatus: captures the fingerprint once more, then
\* calls getProviderResponse
GetResponseWithTypingStatus(fp, count) ==
    /\ gp.pc = "sent"
    /\ fpGlobal' = IF provider \in {"perplexity", "claude"} THEN fp ELSE fpGlobal
    /\ fpCountGlobal' = IF provider = "perplexity" THEN count ELSE fpCountGlobal
    /\ gp' = [gp EXCEPT !.pc = "fast", !.i = 0]
    /\ UNCHANGED <<provider, pageVars, result, ghost, routerVars, serviceVars>>

\* the fast path is left for the DOM fallback; the fallback reads the stored
\* fingerprint into its locals
EnterFallback(f, why) ==
    /\ gp' = [f EXCEPT !.pc = "typingCheck", !.i = 0,
                 !.oldFingerprint = IF provider \in {"perplexity", "claude"}
                                    THEN fpGlobal ELSE Empty,
                 !.oldBlockCount = IF provider = "perplexity"
                                   THEN fpCountGlobal ELSE 0]
    /\ ghost' = [ghost EXCEPT !.fastExit = why]

\* sleep(500) and the next iteration of the fast-path loop
NextFastPoll(f) ==
    IF f.i + 1 < maxPolls(provider)
    THEN /\ gp' = [f EXCEPT !.i = f.i + 1]
         /\ UNCHANGED ghost
    ELSE EnterFallback(f, "elapsed")

\* the catch of the fast-path loop
FastPollCatch(f) ==
    IF f.i > ErrorPollLimit THEN EnterFallback(f, "error") ELSE NextFastPoll(f)

\* one poll of the fast path: read the interceptor's status
FastPoll(ok) ==
    /\ gp.pc = "fast"
    /\ IF ~ok THEN FastPollCatch(gp)
       ELSE IF ~installed THEN EnterFallback(gp, "notInstalled")
       ELSE IF JsLen(captured) > 0 /\ ~isStreaming
            THEN /\ gp' = [gp EXCEPT !.pc = "fastClear", !.snap = captured]
                 /\ ghost' = [ghost EXCEPT !.firstDone =
                                 IF @ = NoRead THEN captured ELSE @]
       ELSE IF gp.i > NoStreamPolls /\ ~isStreaming /\ JsLen(captured) = 0
            THEN EnterFallback(gp, "noStream")
       ELSE NextFastPoll(gp)
    /\ UNCHANGED <<provider, pageVars, fpGlobal, fpCountGlobal, result, routerVars, serviceVars>>

\* the stream is done: clear the buffer and return the text read by the poll
FastClear(ok) ==
    /\ gp.pc = "fastClear"
    /\ IF ok
       THEN /\ captured' = Empty
            /\ gp' = [gp EXCEPT !.pc = "done"]
            /\ result' = [kind |-> "text", path |-> "network", text |-> gp.snap]
            /\ ghost' = [ghost EXCEPT !.fastExit = "returned"]
       ELSE /\ FastPollCatch([gp EXCEPT !.pc = "fast"])
            /\ UNCHANGED <<captured, result>>
    /\ UNCHANGED <<provider, installed, fetchWrap, isStreaming, activeStreamId, blocks, streams,
                   nextStream, fpGlobal, fpCountGlobal, routerVars, serviceVars>>

\* the first isAITyping of the fallback
TypingCheck(isTyping) ==
    /\ gp.pc = "typingCheck"
    /\ gp' = [gp EXCEPT !.pc = IF isTyping THEN "typingWait" ELSE "lateCheck", !.i = 0]
    /\ UNCHANGED <<provider, pageVars, fpGlobal, fpCountGlobal, result, ghost, routerVars, serviceVars>>

\* one iteration of the typing wait
TypingWait(isTyping) ==
    /\ gp.pc = "typingWait"
    /\ gp' = IF isTyping /\ gp.i + 1 < maxTypingWait(provider)
             THEN [gp EXCEPT !.i = gp.i + 1]
             ELSE [gp EXCEPT !.pc = "lateCheck", !.i = 0]
    /\ UNCHANGED <<provider, pageVars, fpGlobal, fpCountGlobal, result, ghost, routerVars, serviceVars>>

\* the late network check after the settle delay
LateCheck(ok) ==
    /\ gp.pc = "lateCheck"
    /\ IF ok /\ JsLen(captured) > LateCheckMinLen
       THEN /\ captured' = Empty
            /\ gp' = [gp EXCEPT !.pc = "done"]
            /\ result' = [kind |-> "text", path |-> "late", text |-> captured]
            /\ ghost' = [ghost EXCEPT !.lateStreaming = isStreaming]
       ELSE /\ gp' = [gp EXCEPT !.pc = "dom", !.i = 0, !.lastText = Empty,
                        !.stableCount = 0, !.foundNewResponse = FALSE]
            /\ UNCHANGED <<captured, result, ghost>>
    /\ UNCHANGED <<provider, installed, fetchWrap, isStreaming, activeStreamId, blocks, streams,
                   nextStream, fpGlobal, fpCountGlobal, routerVars, serviceVars>>

\* the end of the poll budget thrown as an error
NextDomPollThrows(f) ==
    IF f.i + 1 < MAX_POLLS(provider)
    THEN /\ gp' = [f EXCEPT !.i = f.i + 1]
         /\ UNCHANGED <<result, fpGlobal, fpCountGlobal>>
    ELSE /\ gp' = [f EXCEPT !.pc = "done"]
         /\ result' = [kind |-> "error", path |-> "exhausted", text |-> Empty]
         /\ UNCHANGED <<fpGlobal, fpCountGlobal>>

\* a polling loop whose `continue` skips the increment of i
NextDomPollNoIncrement(f) ==
    /\ gp' = f
    /\ UNCHANGED <<result, fpGlobal, fpCountGlobal>>

\* sleep(500) and the next iteration of the DOM polling loop, or its end
NextDomPoll(f) ==
    IF f.i + 1 < MAX_POLLS(provider)
    THEN /\ gp' = [f EXCEPT !.i = f.i + 1]
         /\ UNCHANGED <<result, fpGlobal, fpCountGlobal>>
    ELSE /\ gp' = [f EXCEPT !.pc = "done"]
         /\ result' = IF f.lastText # Empty
                      THEN [kind |-> "text", path |-> "exhausted", text |-> f.lastText]
                      ELSE [kind |-> "text", path |-> "sentinel", text |-> Sentinel]
         /\ UNCHANGED <<fpGlobal, fpCountGlobal>>

\* is the candidate rejected as the previous turn's answer
RejectedAsStale(f, text, cur) ==
    \/ /\ provider = "perplexity" /\ ~f.foundNewResponse
       /\ ~PerplexityIsNew(f.oldFingerprint, f.oldBlockCount, cur)
       /\ (f.oldFingerprint # Empty \/ f.oldBlockCount > 0)
    \/ /\ provider = "claude" /\ f.oldFingerprint # Empty /\ ~f.foundNewResponse
       /\ ClaudeIsStale(f.oldFingerprint, text)

\* one poll of the DOM fallback: text is what the extraction script returns,
\* cur what Perplexity's block script returns
DomPoll(ok, text, cur) ==
    /\ gp.pc = "dom"
    /\ IF ~ok
       THEN \* the rejection of executeJavaScript is not caught
            /\ gp' = [gp EXCEPT !.pc = "done"]
            /\ result' = [kind |-> "error", path |-> "dom", text |-> Empty]
            /\ UNCHANGED <<fpGlobal, fpCountGlobal, ghost>>
       ELSE /\ ghost' =
                 LET g == [ghost EXCEPT
                             !.lastRead = text,
                             !.readRun = IF text = ghost.lastRead
                                         THEN Min(@ + 1, STABLE_THRESHOLD(provider) + 1)
                                         ELSE 1]
                 IN IF text = Empty \/ RejectedAsStale(gp, text, cur) THEN g
                    ELSE [g EXCEPT
                            !.accepted = text,
                            !.acceptedRun = IF text = ghost.accepted
                                            THEN Min(@ + 1, STABLE_THRESHOLD(provider) + 1)
                                            ELSE 1]
            /\ IF text = Empty THEN NextDomPoll(gp)
               ELSE IF RejectedAsStale(gp, text, cur) THEN NextDomPoll(gp)
               ELSE LET f == [gp EXCEPT !.foundNewResponse =
                                 @ \/ provider = "perplexity"
                                   \/ (provider = "claude" /\ gp.oldFingerprint # Empty)]
                    IN IF text = f.lastText
                       THEN IF f.stableCount + 1 >= STABLE_THRESHOLD(provider)
                            THEN /\ gp' = [f EXCEPT !.pc = "done",
                                                    !.stableCount = @ + 1]
                                 /\ result' = [kind |-> "text", path |-> "dom",
                                               text |-> text]
                                 /\ fpGlobal' = IF provider \in {"perplexity", "claude"}
                                                THEN Empty ELSE fpGlobal
                                 /\ fpCountGlobal' = IF provider = "perplexity"
                                                     THEN 0 ELSE fpCountGlobal
                            ELSE NextDomPoll([f EXCEPT !.stableCount = @ + 1])
                       ELSE NextDomPoll([f EXCEPT !.stableCount = 0, !.lastText = text])
    /\ UNCHANGED <<provider, pageVars, routerVars, serviceVars>>

\* the caller has its answer or its error; the next turn can start
ReturnToCaller ==
    /\ gp.pc = "done"
    /\ gp' = IdleFrame
    /\ UNCHANGED <<provider, pageVars, fpGlobal, fpCountGlobal, result, ghost, routerVars, serviceVars>>

InitHost ==
    /\ fpGlobal = Empty
    /\ fpCountGlobal = 0
    /\ gp = IdleFrame
    /\ result = NoResult
    /\ ghost = NewGhost

\* ------------------------------------------------------------------------
\* The SmartRouter of the MCP server
\* ------------------------------------------------------------------------
\* a name the settings file can list that is no key of router.providers
Names == Providers \cup {"other"}

\* preferredProvider = null
NoPreference == "null"

\* one attempt more before the provider is given up
MaxAttemptsOneMore == 2 + 1

\* `attempt <= 2` and `attempt === 2` of the retry loop
MaxAttempts == 2

\* getEnabledProviders when no settings file can be read
DefaultEnabled == {"perplexity", "chatgpt", "gemini"}

\* [...new Set(order)]: the first occurrence of each element, in order
RECURSIVE NewSet(_)
NewSet(order) ==
    IF order = << >> THEN << >>
    ELSE LET init == NewSet(SubSeq(order, 1, Len(order) - 1))
             last == order[Len(order)]
         IN IF \E i \in 1..Len(init) : init[i] = last THEN init ELSE Append(init, last)

\* push instead of unshift: the preferred provider keeps its default place
UniqueOrderPreferredLast(en, preferredProvider) ==
    LET order == <<"chatgpt", "claude", "perplexity", "gemini">>
        withPreferred == IF preferredProvider # NoPreference /\ preferredProvider \in en
                         THEN order \o <<preferredProvider>> ELSE order
        IsEnabled(p) == p \in en
    IN SelectSeq(NewSet(withPreferred), IsEnabled)

\* the order smartQuery builds from the enabled set and the preference
UniqueOrder(en, preferredProvider) ==
    LET order == <<"chatgpt", "claude", "perplexity", "gemini">>
        withPreferred == IF preferredProvider # NoPreference /\ preferredProvider \in en
                         THEN <<preferredProvider>> \o order ELSE order
        IsEnabled(p) == p \in en
    IN SelectSeq(NewSet(withPreferred), IsEnabled)

\* `if (!provider) continue`: the first index from `from` on whose name is a
\* key of router.providers, Len + 1 when the loop runs out
RECURSIVE NextCandidate(_, _)
NextCandidate(uniqueOrder, from) ==
    IF from > Len(uniqueOrder) THEN Len(uniqueOrder) + 1
    ELSE IF uniqueOrder[from] \in Providers THEN from
    ELSE NextCandidate(uniqueOrder, from + 1)

\* the loop index returned in place of the attempt number
SuccessResultZeroBased(providerName, response, attempt) ==
    [provider |-> providerName, response |-> response, attempts |-> attempt - 1]

\* what smartQuery returns
SuccessResult(providerName, response, attempt) ==
    [provider |-> providerName, response |-> response, attempts |-> attempt]

\* the failure counted in the inner catch, once per failed attempt
CountEveryFailure(st, providerName, attempt) ==
    [st EXCEPT !.failures[providerName] = @ + 1]

\* the outer catch: reached when the last attempt rethrows
CountFailure(st, providerName, attempt) ==
    IF attempt = MaxAttempts
    THEN [st EXCEPT !.failures[providerName] = @ + 1]
    ELSE st

NoReturn == [provider |-> "", response |-> "", attempts |-> 0]

\* a call's frame; enabledAtStart and log are history, read by the properties
IdleCall ==
    [pc |-> "idle", preferredProvider |-> NoPreference, uniqueOrder |-> << >>,
     idx |-> 0, attempt |-> 0, ret |-> NoReturn, error |-> "",
     enabledAtStart |-> {}, log |-> << >>]

Calls == 1..MaxCalls

Dispatch(providerName) ==
    [provider |-> providerName, outcome |-> "pending", response |-> ""]

\* the frame that goes on from index `from`: dispatches to the next
\* candidate, or throws 'All providers failed'
Advance(f, from) ==
    LET k == NextCandidate(f.uniqueOrder, from) IN
    IF k > Len(f.uniqueOrder)
    THEN [f EXCEPT !.pc = "thrown", !.idx = k, !.attempt = 0,
                   !.error = "All providers failed"]
    ELSE [f EXCEPT !.pc = "chat", !.idx = k, !.attempt = 1,
                   !.log = Append(@, Dispatch(f.uniqueOrder[k]))]

\* the error of the last attempt thrown on to the caller
GiveUpRethrows(f) ==
    [f EXCEPT !.pc = "thrown", !.attempt = 0, !.error = "provider error"]

\* the outer catch: the error is logged, the loop goes on to the next name
GiveUp(f) == Advance(f, f.idx + 1)

\* smartQuery is called: reads the enabled set, builds the order and
\* dispatches to the first candidate
SmartQuery(c, preferredProvider) ==
    /\ calls[c].pc = "idle"
    /\ calls' = [calls EXCEPT ![c] =
                    Advance([IdleCall EXCEPT
                               !.preferredProvider = preferredProvider,
                               !.uniqueOrder = UniqueOrder(enabled, preferredProvider),
                               !.enabledAtStart = enabled], 1)]
    /\ UNCHANGED <<enabled, stats, captureVars, serviceVars>>

\* provider.chat resolves
ChatResolves(c, response) ==
    /\ calls[c].pc = "chat"
    /\ LET f == calls[c]
           providerName == f.uniqueOrder[f.idx]
       IN /\ stats' = [stats EXCEPT !.success[providerName] = @ + 1]
          /\ calls' = [calls EXCEPT ![c] =
                [f EXCEPT !.pc = "returned",
                          !.ret = SuccessResult(providerName, response, f.attempt),
                          !.log[Len(f.log)] = [@ EXCEPT !.outcome = "ok",
                                                        !.response = response]]]
    /\ UNCHANGED <<enabled, captureVars, serviceVars>>

\* provider.chat rejects: the retry after the delay, or the provider is
\* given up and the loop goes on
ChatRejects(c) ==
    /\ calls[c].pc = "chat"
    /\ LET f == calls[c]
           providerName == f.uniqueOrder[f.idx]
           g == [f EXCEPT !.log[Len(f.log)] = [@ EXCEPT !.outcome = "failed"]]
       IN /\ stats' = CountFailure(stats, providerName, f.attempt)
          /\ calls' = [calls EXCEPT ![c] =
                IF f.attempt < MaxAttempts
                THEN [g EXCEPT !.attempt = @ + 1,
                               !.log = Append(@, Dispatch(providerName))]
                ELSE GiveUp(g)]
    /\ UNCHANGED <<enabled, captureVars, serviceVars>>

\* the app writes enabled-providers.json with the list en
\* (while a call is still to come: only the start of a call reads the file)
SettingsChange(en) ==
    /\ \E c \in Calls : calls[c].pc = "idle"
    /\ enabled' = en
    /\ UNCHANGED <<stats, calls, captureVars, serviceVars>>

InitRouter ==
    /\ enabled = DefaultEnabled
    /\ stats = [success |-> [p \in Providers |-> 0], failures |-> [p \in Providers |-> 0]]
    /\ calls = [c \in Calls |-> IdleCall]

\* ------------------------------------------------------------------------
\* The parallel dispatch over a provider set: queryMultiple of the REST API,
\* ask_all_ais and compare_ais of the MCP server
\* ------------------------------------------------------------------------
Unset == [kind |-> "unset", text |-> "", ms |-> 0, error |-> ""]

\* results[provider] = r.text
TextEntry(text) == [kind |-> "text", text |-> text, ms |-> 0, error |-> ""]

\* timings[provider] = r.responseTimeMs
TimeEntry(ms) == [kind |-> "ms", text |-> "", ms |-> ms, error |-> ""]

\* results[provider] = null
NullEntry == [kind |-> "null", text |-> "", ms |-> 0, error |-> ""]

\* timings[provider] = { error: e.message }
ErrorEntry(msg) == [kind |-> "error", text |-> "", ms |-> 0, error |-> msg]

Pending == [kind |-> "pending", text |-> "", ms |-> 0, error |-> ""]

\* the frame of the dispatch; outcome is history: how each provider's
\* dispatch settled
IdleMulti ==
    [pc |-> "idle", tool |-> "", models |-> {},
     results |-> [p \in Providers |-> Unset],
     timings |-> [p \in Providers |-> Unset],
     outcome |-> [p \in Providers |-> Unset],
     ret |-> [results |-> [p \in Providers |-> Unset],
              timings |-> [p \in Providers |-> Unset], models |-> {}]]

\* queryMultiple is called: every provider's queryProvider is started
QueryMultiple(providers) ==
    /\ qm.pc = "idle"
    /\ qm' = [IdleMulti EXCEPT
                !.pc = "waiting", !.tool = "queryMultiple", !.models = providers,
                !.outcome = [p \in Providers |-> IF p \in providers THEN Pending ELSE Unset]]
    /\ UNCHANGED notMultiVars

\* ask_all_ais: a task for every enabled provider
AskAllAis ==
    /\ qm.pc = "idle"
    /\ qm' = [IdleMulti EXCEPT
                !.pc = "waiting", !.tool = "ask_all_ais",
                !.models = Providers \cap enabled,
                !.outcome = [p \in Providers |-> IF p \in enabled THEN Pending ELSE Unset]]
    /\ UNCHANGED notMultiVars

\* compare_ais: a task for every requested provider that is enabled
CompareAis(requested) ==
    /\ qm.pc = "idle"
    /\ LET useProviders == (requested \cap enabled) \cap Providers IN
       qm' = [IdleMulti EXCEPT
                !.pc = "waiting", !.tool = "compare_ais", !.models = useProviders,
                !.outcome = [p \in Providers |->
                                IF p \in useProviders THEN Pending ELSE Unset]]
    /\ UNCHANGED notMultiVars

\* the dispatch to one provider resolves: queryProvider with text and
\* elapsed time, chat and search with the text
QueryProviderResolves(providerName, text, ms) ==
    /\ qm.pc = "waiting"
    /\ qm.outcome[providerName].kind = "pending"
    /\ qm' = [qm EXCEPT !.results[providerName] = TextEntry(text),
                        !.timings[providerName] =
                            IF qm.tool = "queryMultiple" THEN TimeEntry(ms) ELSE @,
                        !.outcome[providerName] = [kind |-> "ok", text |-> text,
                                               ms |-> ms, error |-> ""]]
    /\ UNCHANGED notMultiVars

\* no catch around queryProvider: the rejection rejects Promise.all
TaskRejectedUncaught(q, providerName, msg) ==
    [q EXCEPT !.pc = "rejected",
              !.outcome[providerName] = [kind |-> "failed", text |-> "", ms |-> 0,
                                     error |-> msg]]

\* the catch of the provider's task: null and the error in the timings, or
\* (MCP tools) { error } as the provider's result
TaskRejected(q, providerName, msg) ==
    [q EXCEPT !.results[providerName] =
                  IF q.tool = "queryMultiple" THEN NullEntry ELSE ErrorEntry(msg),
              !.timings[providerName] =
                  IF q.tool = "queryMultiple" THEN ErrorEntry(msg) ELSE @,
              !.outcome[providerName] = [kind |-> "failed", text |-> "", ms |-> 0,
                                     error |-> msg]]

\* the dispatch to one provider rejects
QueryProviderRejects(providerName, msg) ==
    /\ qm.pc = "waiting"
    /\ qm.outcome[providerName].kind = "pending"
    /\ qm' = TaskRejected(qm, providerName, msg)
    /\ UNCHANGED notMultiVars

\* the first task to settle ends the wait
AnySettled(q) ==
    q.models = {} \/ \E p \in q.models : q.outcome[p].kind # "pending"

\* Promise.all over the tasks, none of which rejects
AllSettled(q) == \A p \in q.models : q.outcome[p].kind # "pending"

\* await Promise.all(...) is over: return { results, timings, models }
QueryMultipleReturns ==
    /\ qm.pc = "waiting"
    /\ AllSettled(qm)
    /\ qm' = [qm EXCEPT !.pc = "returned",
                        !.ret = [results |-> qm.results, timings |-> qm.timings,
                                 models |-> qm.models]]
    /\ UNCHANGED notMultiVars

\* the caller has the result; the next request can come
QueryMultipleDone ==
    /\ qm.pc = "returned"
    /\ qm' = IdleMulti
    /\ UNCHANGED notMultiVars

InitMulti == qm = IdleMulti

\* ------------------------------------------------------------------------
\* The IPCClient of the MCP server
\* ------------------------------------------------------------------------
RequestIds == 1..MaxRequests

\* one line of the socket: a response object with its requestId (0: none or
\* falsy), or a line JSON.parse throws on
Response(n) == [kind |-> "response", requestId |-> n]

NotJson == [kind |-> "notjson", requestId |-> 0]

NoLine == [kind |-> "none", requestId |-> 0]

\* the promise send() returns: its state and value, and how often its
\* resolve and reject were called
NoPromise ==
    [state |-> "none", value |-> NoLine, error |-> "", resolves |-> 0, rejects |-> 0]

NewPromise == [NoPromise EXCEPT !.state = "pending"]

\* resolve and reject of a promise: only the first call settles it
Resolve(pr, v) ==
    IF pr.state = "pending"
    THEN [pr EXCEPT !.state = "resolved", !.value = v, !.resolves = @ + 1]
    ELSE [pr EXCEPT !.resolves = @ + 1]

Reject(pr, msg) ==
    IF pr.state = "pending"
    THEN [pr EXCEPT !.state = "rejected", !.error = msg, !.rejects = @ + 1]
    ELSE [pr EXCEPT !.rejects = @ + 1]

\* the oldest pending request
OldestPending(c) ==
    CHOOSE k \in c.pendingRequests : \A j \in c.pendingRequests : k <= j

\* the pending request a response settles when the id lookup is skipped
AnyPending(c, line) ==
    IF line.kind = "response" /\ c.pendingRequests # {}
    THEN [line EXCEPT !.requestId = OldestPending(c)]
    ELSE line

\* every id send() has handed out
HasSent(c, id) == id \in 1..c.requestId

\* pendingRequests.has(id)
Has(c, id) == id \in c.pendingRequests

\* the line as processBuffer looks it up
Lookup(c, line) == line

\* one line of processBuffer
ProcessLine(c, line) ==
    LET response == Lookup(c, line) IN
    IF /\ response.kind = "response"
       /\ response.requestId # 0
       /\ Has(c, response.requestId)
    THEN [c EXCEPT
            !.pendingRequests = @ \ {response.requestId},
            !.promises[response.requestId] = Resolve(@, line)]
    ELSE c

\* the line loop of processBuffer
RECURSIVE ProcessLines(_, _)
ProcessLines(c, lines) ==
    IF lines = <<>> THEN c
    ELSE ProcessLines(ProcessLine(c, Head(lines)), Tail(lines))

\* socket.on('data') and processBuffer: the chunk ends the buffered line if
\* there is one, carries whole lines and the beginning of a last one
Data(lines, rest) ==
    LET complete == (IF ipc.responseBuffer # NoLine
                     THEN <<ipc.responseBuffer>> ELSE <<>>) \o lines
    IN /\ complete # <<>>
       /\ ipc' = [ProcessLines(ipc, complete) EXCEPT !.responseBuffer = rest]
       /\ ipcLog' = [op |-> "data", lines |-> complete, id |-> 0]
       /\ UNCHANGED notIpcVars

\* a chunk without a line end
DataNoLineEnd(rest) ==
    /\ ipc.responseBuffer = NoLine
    /\ rest # NoLine
    /\ ipc' = [ipc EXCEPT !.responseBuffer = rest]
    /\ ipcLog' = [op |-> "data", lines |-> <<>>, id |-> 0]
    /\ UNCHANGED notIpcVars

\* send(): the next id, the pending entry, the request line, the timer
Send ==
    /\ ipc.requestId < MaxRequests
    /\ LET requestId == ipc.requestId + 1 IN
       /\ ipc' = [ipc EXCEPT
                    !.requestId = requestId,
                    !.pendingRequests = @ \cup {requestId},
                    !.promises[requestId] = NewPromise,
                    !.timers = @ \cup {requestId}]
       /\ ipcLog' = [op |-> "send", lines |-> <<>>, id |-> requestId]
    /\ UNCHANGED notIpcVars

\* the timer's test left out
TimerAlways(c, requestId) == TRUE

\* the timer's test
StillPending(c, requestId) == requestId \in c.pendingRequests

\* the timer of send() fires
Timeout(requestId) ==
    /\ requestId \in ipc.timers
    /\ ipc' = IF StillPending(ipc, requestId)
              THEN [ipc EXCEPT
                      !.timers = @ \ {requestId},
                      !.pendingRequests = @ \ {requestId},
                      !.promises[requestId] = Reject(@, "Request timeout")]
              ELSE [ipc EXCEPT !.timers = @ \ {requestId}]
    /\ ipcLog' = [op |-> "timeout", lines |-> <<>>, id |-> requestId]
    /\ UNCHANGED notIpcVars

InitIpc ==
    /\ ipc = [requestId |-> 0, pendingRequests |-> {}, responseBuffer |-> NoLine,
              promises |-> [id \in RequestIds |-> NoPromise], timers |-> {}]
    /\ ipcLog = [op |-> "none", lines |-> <<>>, id |-> 0]

\* ------------------------------------------------------------------------
\* The IPC server of the host: one connection
\* ------------------------------------------------------------------------
HostRequestIds == 1..MaxHostRequests

DataEvents == 1..MaxDataEvents

\* what a line of the connection can be: a request object with one of the
\* actions, the JSON text null, a line that does not parse
Actions == {"ping", "sendMessage", "bogus"}

LineKinds == Actions \cup {"null", "notjson"}

\* a request object; the client numbers its requests as it sends them
Request(id, action) == [kind |-> "request", requestId |-> id, action |-> action]

NullRequest == [kind |-> "null", requestId |-> 0, action |-> ""]

NotJsonRequest == [kind |-> "notjson", requestId |-> 0, action |-> ""]

NoRequest == [kind |-> "none", requestId |-> 0, action |-> ""]

\* the lines of a chunk, the requests among them numbered from id on
RECURSIVE Stamp(_, _)
Stamp(kinds, id) ==
    IF kinds = <<>> THEN <<>>
    ELSE LET k == Head(kinds) IN
         IF k \in Actions
         THEN <<Request(id, k)>> \o Stamp(Tail(kinds), id + 1)
         ELSE <<IF k = "null" THEN NullRequest ELSE NotJsonRequest>>
                  \o Stamp(Tail(kinds), id)

RequestsIn(lines) == {k \in 1..Len(lines) : lines[k].kind = "request"}

\* the provider field of the requests: the client's first request is for
\* claude, its later ones for chatgpt
RequestProvider(id) == IF id = 1 THEN "claude" ELSE "chatgpt"

\* the frame of one run of the data handler
NoHandler == [pc |-> "none", lines |-> <<>>, idx |-> 0]

\* handleMCPRequest: the response of an action
HandleMCPRequest(action, outcome) ==
    CASE action = "ping" -> "result"
      [] action = "sendMessage" -> outcome
      [] OTHER -> "error"

\* the catch of the data handler when handleMCPRequest rejected: the line
\* parses to null, and reading its requestId throws out of the handler
CatchRethrows(sv, h) == [sv EXCEPT !.handlers[h].pc = "crashed"]

\* the data handler from line k on, up to its next await: a line that does
\* not parse is answered in the catch with an error without requestId, a
\* line that parses calls handleMCPRequest and awaits it
RECURSIVE RunFrom(_, _, _)
RunFrom(sv, h, k) ==
    LET lines == sv.handlers[h].lines IN
    IF k > Len(lines) THEN [sv EXCEPT !.handlers[h].pc = "done", !.handlers[h].idx = k]
    ELSE IF lines[k].kind = "notjson"
         THEN RunFrom([sv EXCEPT !.anonymous = 1], h, k + 1)
         ELSE [sv EXCEPT
                 !.handlers[h].pc = "awaiting",
                 !.handlers[h].idx = k,
                 !.performed = IF lines[k].kind = "request"
                               THEN [@ EXCEPT ![lines[k].requestId] = @ + 1]
                               ELSE @]

\* socket.on('data') of the server: the chunk ends the buffered line if there
\* is one, carries whole lines and the beginning of a last one; the handler
\* runs up to its first await
HostData(kinds, restKind) ==
    LET sv == ipcServer
        fresh == Stamp(kinds \o (IF restKind = "none" THEN <<>> ELSE <<restKind>>),
                       sv.received + 1)
        lines == SubSeq(fresh, 1, Len(kinds))
        rest == IF restKind = "none" THEN NoRequest ELSE fresh[Len(fresh)]
        complete == (IF sv.buffer # NoRequest THEN <<sv.buffer>> ELSE <<>>) \o lines
        h == sv.events + 1
    IN /\ sv.events < MaxDataEvents
       /\ sv.received + Cardinality(RequestsIn(fresh)) <= MaxHostRequests
       /\ complete # <<>>
       /\ ipcServer' =
             RunFrom([sv EXCEPT
                        !.buffer = rest,
                        !.events = h,
                        !.received = @ + Cardinality(RequestsIn(fresh)),
                        !.complete = @ \cup {complete[k].requestId : k \in RequestsIn(complete)},
                        !.handlers[h] = [pc |-> "running", lines |-> complete, idx |-> 0]],
                     h, 1)
       /\ UNCHANGED notServerVars

\* handleMCPRequest settles and the handler goes on: the response gets the
\* requestId of the request and is written, then the next lines
HandleMCPRequestSettles(h, outcome) ==
    LET sv == ipcServer
        f == sv.handlers[h]
        request == f.lines[f.idx]
    IN /\ f.pc = "awaiting"
       /\ ipcServer' =
             IF request.kind = "request"
             THEN RunFrom([sv EXCEPT
                             !.written[request.requestId] =
                                 Append(@, HandleMCPRequest(request.action, outcome))],
                          h, f.idx + 1)
             ELSE CatchRethrows(sv, h)
       /\ UNCHANGED notServerVars

\* buffer: the beginning of a line not yet ended; events: the data events so
\* far; handlers: their runs. History: received, the requests whose first
\* bytes arrived; complete, those whose line has ended; performed, the calls
\* of handleMCPRequest per request; written, the responses written per
\* requestId; anonymous, whether a response without requestId was written
InitIpcServer ==
    ipcServer = [buffer |-> NoRequest, events |-> 0, received |-> 0, complete |-> {},
                 handlers |-> [h \in DataEvents |-> NoHandler],
                 performed |-> [id \in HostRequestIds |-> 0],
                 written |-> [id \in HostRequestIds |-> <<>>],
                 anonymous |-> 0]

\* ------------------------------------------------------------------------
\* A dispatch to one provider: AIProvider.chat of the MCP server over IPC,
\* queryProvider of the REST API, and the provider's view in the host
\* ------------------------------------------------------------------------
Callers == 1..MaxCallers

\* one more wait before the message is sent anyway
TypingWaitLimitOneMore == 5 + 1

\* the wait loop of chat: waitCount < 5
TypingWaitLimit == 5

NoResponseReceived == "No response received"

IdleDispatch ==
    [kind |-> "none", pc |-> "idle", dispatch |-> 0,
     typingCheck |-> FALSE, waitCount |-> 0, checks |-> 0,
     hostFailed |-> FALSE, fromCache |-> FALSE, value |-> "", error |-> ""]

\* browserManager.getWebContents(provider): null without a view and for a
\* view whose webContents is destroyed
GetWebContents == session.view = "alive"

\* browserManager.createView(provider): an existing view is returned as it is
CreateView(view) == IF view = "none" THEN "alive" ELSE view

\* chat without the check of ensureInitialized
ChatNoEnabledCheck(c, useCache) ==
    /\ chat.frames[c].pc = "idle"
    /\ chat.nextDispatch <= MaxDispatches
    /\ LET f == [IdleDispatch EXCEPT !.kind = "chat", !.dispatch = chat.nextDispatch] IN
       chat' = [chat EXCEPT
                  !.nextDispatch = @ + 1,
                  !.frames[c] =
                      IF useCache /\ chat.cache # ""
                      THEN [f EXCEPT !.pc = "returned", !.fromCache = TRUE,
                                     !.value = chat.cache]
                      ELSE [f EXCEPT !.pc = "ensure"]]
    /\ UNCHANGED <<session, notChatVars>>

\* chat(message, useCache): a cached response is returned at once;
\* ensureInitialized throws for a disabled provider and else sends
\* initProvider
Chat(c, useCache) ==
    /\ chat.frames[c].pc = "idle"
    /\ chat.nextDispatch <= MaxDispatches
    /\ LET f == [IdleDispatch EXCEPT !.kind = "chat", !.dispatch = chat.nextDispatch] IN
       chat' = [chat EXCEPT
                  !.nextDispatch = @ + 1,
                  !.frames[c] =
                      IF useCache /\ chat.cache # ""
                      THEN [f EXCEPT !.pc = "returned", !.fromCache = TRUE,
                                     !.value = chat.cache]
                      ELSE IF provider \notin enabled
                      THEN [f EXCEPT !.pc = "thrown", !.error = "disabled"]
                      ELSE [f EXCEPT !.pc = "ensure"]]
    /\ UNCHANGED <<session, notChatVars>>

\* the host handles initProvider; chat goes on to its first getTypingStatus
InitProvider(c) ==
    /\ chat.frames[c].pc = "ensure"
    /\ session' = [session EXCEPT !.view = CreateView(@)]
    /\ chat' = [chat EXCEPT !.frames[c].pc = "checking"]
    /\ UNCHANGED notChatVars

\* isAITyping of the host: not typing without webContents
IsAITyping == GetWebContents /\ session.typing

\* the host answers a getTypingStatus of chat; the loop test follows: one
\* more check after a second while typing and waitCount < 5, else the
\* sendMessage request is written
GetTypingStatus(c) ==
    LET f == chat.frames[c]
        waitCount == IF f.checks = 0 THEN 0 ELSE f.waitCount + 1
    IN /\ f.pc = "checking"
       /\ chat' = [chat EXCEPT !.frames[c] =
                      [f EXCEPT !.typingCheck = IsAITyping,
                                !.waitCount = waitCount,
                                !.checks = @ + 1,
                                !.pc = IF IsAITyping /\ waitCount < TypingWaitLimit
                                       THEN "checking" ELSE "sending"]]
       /\ UNCHANGED <<session, notChatVars>>

\* queryProvider(provider, message): handleMCPRequest sendMessage at once
QueryProvider(c) ==
    /\ chat.frames[c].pc = "idle"
    /\ chat.nextDispatch <= MaxDispatches
    /\ chat' = [chat EXCEPT
                  !.nextDispatch = @ + 1,
                  !.frames[c] = [IdleDispatch EXCEPT
                                    !.kind = "queryProvider", !.pc = "sending",
                                    !.dispatch = chat.nextDispatch]]
    /\ UNCHANGED <<session, notChatVars>>

\* what the caller does with a failed sendMessage: chat does not look at the
\* result, queryProvider throws
SendFailed(f) ==
    IF f.kind = "chat"
    THEN [f EXCEPT !.pc = "capturing", !.hostFailed = TRUE]
    ELSE [f EXCEPT !.pc = "thrown", !.hostFailed = TRUE,
                   !.error = "Provider not initialized"]

\* the host handles sendMessage: sendMessageToProvider throws without
\* webContents, else the message goes to the page and its generation starts
SendMessage(c) ==
    LET f == chat.frames[c] IN
    /\ f.pc = "sending"
    /\ IF GetWebContents
       THEN /\ session' = [session EXCEPT !.typing = TRUE,
                                          !.cycles = @ \cup {f.dispatch}]
            /\ chat' = [chat EXCEPT !.frames[c].pc = "capturing"]
       ELSE /\ chat' = [chat EXCEPT !.frames[c] = SendFailed(f)]
            /\ UNCHANGED session
    /\ UNCHANGED notChatVars

\* result.response || 'No response received' of chat,
\* responseResult.response || responseResult.result || '' of queryProvider
ResponseOf(f, text) ==
    IF f.kind = "chat"
    THEN (IF text = "" THEN NoResponseReceived ELSE text)
    ELSE text

\* what the caller does with a failed getResponseWithTyping: the response
\* object has no response field
CaptureFailed(f) ==
    [f EXCEPT !.pc = "returned", !.hostFailed = TRUE, !.value = ResponseOf(f, "")]

\* the host answers getResponseWithTyping: getResponseWithTypingStatus
\* throws without webContents, else returns the captured text; the caller
\* returns, chat caching what it returns
GetResponseWithTyping(c, text) ==
    LET f == chat.frames[c]
        g == IF GetWebContents
             THEN [f EXCEPT !.pc = "returned", !.value = ResponseOf(f, text)]
             ELSE CaptureFailed(f)
    IN /\ f.pc = "capturing"
       /\ session' = [session EXCEPT !.cycles = @ \ {f.dispatch}]
       /\ chat' = [chat EXCEPT
                     !.frames[c] = g,
                     !.cache = IF f.kind = "chat" /\ g.pc = "returned" THEN g.value ELSE @]
       /\ UNCHANGED notChatVars

\* the 120 s timer of ipc.send fires while the host is still capturing: chat
\* throws, the capture in the host goes on
RequestTimeout(c) ==
    LET f == chat.frames[c] IN
    /\ f.kind = "chat"
    /\ f.pc = "capturing"
    /\ chat' = [chat EXCEPT !.frames[c] =
                   [f EXCEPT !.pc = "thrown", !.error = "Request timeout"]]
    /\ UNCHANGED <<session, notChatVars>>

\* the capture of a dispatch whose caller has timed out ends in the host
AbandonedCaptureEnds(d) ==
    /\ d \in session.cycles
    /\ \A c \in Callers : ~(chat.frames[c].dispatch = d /\ chat.frames[c].pc = "capturing")
    /\ session' = [session EXCEPT !.cycles = @ \ {d}]
    /\ UNCHANGED <<chat, notChatVars>>

\* the caller has its result or error: the slot is free for the next call
\* (another tool call, another REST request, the router's next attempt)
DispatchDone(c) ==
    /\ chat.frames[c].pc \in {"returned", "thrown"}
    /\ chat' = [chat EXCEPT !.frames[c] = IdleDispatch]
    /\ UNCHANGED <<session, notChatVars>>

\* the page finishes generating
GenerationEnds ==
    /\ session.typing
    /\ session' = [session EXCEPT !.typing = FALSE]
    /\ UNCHANGED <<chat, notChatVars>>

\* the webContents of the view is destroyed
ViewDestroyed ==
    /\ session.view = "alive"
    /\ session' = [session EXCEPT !.view = "destroyed", !.typing = FALSE]
    /\ UNCHANGED <<chat, notChatVars>>

\* view: none before createView, alive, or destroyed; typing: the page shows
\* a generation in progress; cycles: the dispatches whose message was sent
\* and whose capture has not ended. cache: the cached response of the
\* message ("" without one)
InitChat ==
    /\ session = [view |-> "none", typing |-> FALSE, cycles |-> {}]
    /\ chat = [cache |-> "", nextDispatch |-> 1,
               frames |-> [c \in Callers |-> IdleDispatch]]

\* ------------------------------------------------------------------------
\* Model resolution of the REST API (rest-api.cjs)
\* ------------------------------------------------------------------------
\* the model names a request can carry; "" is a request without a model
ModelInputs ==
    {"", "auto", "all", "claude", " GPT-4o ", "sonnet", "gemini", "pplx", "other", "mistral"}

\* String(model).toLowerCase().trim()
LowerTrim(model) == IF model = " GPT-4o " THEN "gpt-4o" ELSE model

\* the entries of MODEL_ALIASES the inputs reach
MODEL_ALIASES ==
    [key \in {"auto", "all", "claude", "gpt-4o", "sonnet", "gemini", "pplx"} |->
        CASE key = "gpt-4o" -> "chatgpt"
          [] key = "sonnet" -> "claude"
          [] key = "pplx" -> "perplexity"
          [] OTHER -> key]

resolveModel(model) ==
    IF model = "" THEN "auto"
    ELSE LET key == LowerTrim(model)
         IN IF key \in DOMAIN MODEL_ALIASES THEN MODEL_ALIASES[key] ELSE key

\* getEnabled(): the enabled providers in the order of the settings
getEnabled(en) ==
    SelectSeq(<<"perplexity", "chatgpt", "claude", "gemini", "other">>, LAMBDA p : p \in en)

\* the order in which 'auto' prefers the providers
AutoOrder == <<"claude", "chatgpt", "gemini", "perplexity">>

NoProvider == "null"

pickBestProvider(en) ==
    LET found == SelectSeq(AutoOrder, LAMBDA p : p \in en)
    IN IF found = << >> THEN NoProvider ELSE found[1]

Range(seq) == {seq[i] : i \in DOMAIN seq}

MapResolveModel(models) == [i \in DOMAIN models |-> resolveModel(models[i])]

\* a model field is a string or an array of strings
StringField(model) == [kind |-> "string", model |-> model, models |-> << >>]

ArrayField(models) == [kind |-> "array", model |-> "", models |-> models]

ResolveError == [mode |-> "error", providers |-> << >>]

resolveModels(modelField, en) ==
    IF modelField.kind = "array"
    THEN LET resolved == SelectSeq(MapResolveModel(modelField.models),
                                   LAMBDA m : m # "auto" /\ m # "all" /\ m \in en)
             unique == NewSet(resolved)
         IN IF Len(unique) = 0 THEN ResolveError
            ELSE [mode |-> IF Len(unique) = 1 THEN "single" ELSE "multi",
                  providers |-> unique]
    ELSE LET resolved == resolveModel(modelField.model)
         IN CASE resolved = "all" -> [mode |-> "all", providers |-> getEnabled(en)]
              [] resolved = "auto" ->
                    IF pickBestProvider(en) = NoProvider THEN ResolveError
                    ELSE [mode |-> "single", providers |-> <<pickBestProvider(en)>>]
              [] OTHER ->
                    IF resolved \in en THEN [mode |-> "single", providers |-> <<resolved>>]
                    ELSE ResolveError

\* no request was handled yet
NoRoute ==
    [modelField |-> StringField(""), enabled |-> {}, resolved |-> ResolveError,
     status |-> 0, dispatched |-> {}]

\* POST /v1/chat/completions without a function: `body.model || 'auto'` is
\* resolved, an error is answered with 404, a request without a message with
\* 400, and the message is sent to the one resolved provider (queryProvider)
\* or to all of them (queryMultiple). enabled: the enabled providers the
\* resolution read; dispatched: the providers the message was sent to
HandleRoute(modelField, hasMessage) ==
    LET modelInput == IF modelField = StringField("") THEN StringField("auto") ELSE modelField
        resolved == resolveModels(modelInput, enabled)
    IN /\ restApi' = [modelField |-> modelField,
                   enabled |-> enabled,
                   resolved |-> resolved,
                   status |-> IF resolved.mode = "error" THEN 404
                              ELSE IF ~hasMessage THEN 400 ELSE 200,
                   dispatched |-> IF resolved.mode = "error" \/ ~hasMessage THEN {}
                                  ELSE IF resolved.mode = "single" THEN {resolved.providers[1]}
                                  ELSE Range(resolved.providers)]
       /\ UNCHANGED <<enabled, notRestVars>>

InitRest == restApi = NoRoute

\* ------------------------------------------------------------------------
\* sendToPerplexity: the message is pasted through the system clipboard
\* (rest-api.cjs)
\* ------------------------------------------------------------------------
Senders == 1..MaxSenders

\* the message of a sender, and what the user had copied
Message(s) == IF s = 1 THEN "message 1" ELSE "message 2"

UserText == "copied by the user"

\* pastes: the Ctrl+V presses; found: what the verification saw; submitted:
\* the Enter presses; started: the clipboard when the call began (history)
IdleSend ==
    [pc |-> "idle", oldClipboard |-> "", pastes |-> 0, found |-> FALSE,
     submitted |-> 0, started |-> ""]

\* the call begins: navigation check, fingerprint, focus attempts
StartSend(s) ==
    /\ paste.sends[s].pc = "idle"
    /\ paste' = [paste EXCEPT !.sends[s] = [IdleSend EXCEPT !.pc = "focused",
                                                           !.started = paste.clipboard]]
    /\ UNCHANGED notPasteVars

\* sendInputEvent throws (the view is gone): the call rejects where it is
InputEventThrows(s, clip) ==
    paste' = [paste EXCEPT !.clipboard = clip, !.sends[s].pc = "failed"]

\* oldClipboard = readText(); writeText(message); Ctrl+V
PasteMessage(s, ok) ==
    /\ paste.sends[s].pc = "focused"
    /\ IF ok
       THEN paste' = [paste EXCEPT !.clipboard = Message(s),
                                   !.sends[s].oldClipboard = paste.clipboard,
                                   !.sends[s].pastes = @ + 1,
                                   !.sends[s].pc = "pasting"]
       ELSE InputEventThrows(s, Message(s))
    /\ UNCHANGED notPasteVars

\* after the sleep: writeText(oldClipboard), then the input is read
RestoreClipboard(s) ==
    /\ paste.sends[s].pc \in {"pasting", "repasting"}
    /\ paste' = [paste EXCEPT !.clipboard = paste.sends[s].oldClipboard,
                              !.sends[s].pc = IF @ = "pasting" THEN "verifying"
                                              ELSE "submitting"]
    /\ UNCHANGED notPasteVars

\* the paste is not repeated
VerifyNoRetry(s, messageInInput, ok) ==
    /\ paste.sends[s].pc = "verifying"
    /\ paste' = [paste EXCEPT !.sends[s].found = messageInInput,
                              !.sends[s].pc = "submitting"]
    /\ UNCHANGED notPasteVars

\* messageInInput.includes(message.substring(0, 20)), else one more paste
Verify(s, messageInInput, ok) ==
    /\ paste.sends[s].pc = "verifying"
    /\ IF messageInInput
       THEN paste' = [paste EXCEPT !.sends[s].found = TRUE,
                                   !.sends[s].pc = "submitting"]
       ELSE IF ok
       THEN paste' = [paste EXCEPT !.clipboard = Message(s),
                                   !.sends[s].pastes = @ + 1,
                                   !.sends[s].pc = "repasting"]
       ELSE InputEventThrows(s, Message(s))
    /\ UNCHANGED notPasteVars

\* Enter
Submit(s, ok) ==
    /\ paste.sends[s].pc = "submitting"
    /\ IF ok
       THEN paste' = [paste EXCEPT !.sends[s].submitted = @ + 1,
                                   !.sends[s].pc = "sent"]
       ELSE InputEventThrows(s, paste.clipboard)
    /\ UNCHANGED notPasteVars

\* the caller has the result; its next message can be sent
SendReturns(s) ==
    /\ paste.sends[s].pc \in {"sent", "failed"}
    /\ paste' = [paste EXCEPT !.sends[s] = IdleSend]
    /\ UNCHANGED notPasteVars

InitPaste == paste = [clipboard |-> UserText, sends |-> [s \in Senders |-> IdleSend]]

\* ------------------------------------------------------------------------
\* BrowserManager (browser-manager.cjs)
\* ------------------------------------------------------------------------
\* views: per provider no entry, a view, or a view whose webContents is
\* destroyed; created: the BrowserViews constructed for the provider;
\* ret: what the last call returned
NoView == [p \in Providers |-> "none"]

Returned(bmgr, value) == [bmgr EXCEPT !.ret = value]

\* createView without the lookup in this.views
createViewAlways(bmgr, p) ==
    IF bmgr.isDestroyed THEN Returned(bmgr, "null")
    ELSE IF p \notin Providers THEN Returned(bmgr, "thrown")
    ELSE IF bmgr.created[p] >= 2 THEN Returned(bmgr, "view")
    ELSE [bmgr EXCEPT !.views[p] = "alive", !.created[p] = @ + 1, !.ret = "view"]

\* createView(provider) as a function of the manager
createView(bmgr, p) ==
    IF bmgr.isDestroyed THEN Returned(bmgr, "null")
    ELSE IF p \in Providers /\ bmgr.views[p] # "none" THEN Returned(bmgr, "view")
    ELSE IF p \notin Providers THEN Returned(bmgr, "thrown")
    ELSE [bmgr EXCEPT !.views[p] = "alive", !.created[p] = @ + 1, !.ret = "view"]

CreateViewCall(p) ==
    /\ bm' = createView(bm, p)
    /\ UNCHANGED notBmVars

\* showProvider(provider, bounds); ok: the calls on the main window succeed
ShowProvider(p, ok) ==
    /\ IF bm.isDestroyed \/ bm.mainWindow # "alive" THEN bm' = Returned(bm, "null")
       ELSE LET b == IF p \in Providers /\ bm.views[p] # "none" THEN bm
                     ELSE createView(bm, p)
            IN IF b.ret = "thrown" /\ p \notin Providers THEN bm' = b
               ELSE IF b.views[p] # "alive" THEN bm' = Returned(b, "null")
               ELSE bm' = [b EXCEPT !.activeProvider = IF ok THEN p ELSE @,
                                    !.ret = "view"]
    /\ UNCHANGED notBmVars

HideCurrentView ==
    /\ bm' = IF bm.isDestroyed THEN Returned(bm, "none")
             ELSE [bm EXCEPT !.activeProvider = "null", !.ret = "none"]
    /\ UNCHANGED notBmVars

\* navigate(provider, url): a provider without webContents gets createView
Navigate(p) ==
    /\ bm' = IF p \in Providers /\ bm.views[p] = "alive" THEN Returned(bm, "none")
             ELSE LET b == createView(bm, p)
                  IN IF b.ret = "thrown" THEN b ELSE Returned(b, "none")
    /\ UNCHANGED notBmVars

Destroy ==
    /\ bm' = IF bm.isDestroyed THEN Returned(bm, "none")
             ELSE [bm EXCEPT !.isDestroyed = TRUE, !.views = NoView,
                             !.activeProvider = "null", !.ret = "none"]
    /\ UNCHANGED notBmVars

\* the webContents of a view is destroyed (the page crashed or was closed)
WebContentsDestroyed(p) ==
    /\ bm.views[p] = "alive"
    /\ bm' = [bm EXCEPT !.views[p] = "destroyed"]
    /\ UNCHANGED notBmVars

MainWindowClosed ==
    /\ bm.mainWindow = "alive"
    /\ bm' = [bm EXCEPT !.mainWindow = "destroyed"]
    /\ UNCHANGED notBmVars

InitBm ==
    bm = [views |-> NoView, created |-> [p \in Providers |-> 0],
          activeProvider |-> "null", isDestroyed |-> FALSE,
          mainWindow |-> "alive", ret |-> "none"]

\* ------------------------------------------------------------------------
\* The SDK: Proxima._fetchWithRetry (unnamed/part_001)
\* ------------------------------------------------------------------------
\* lastError = null
NullError == [kind |-> "null", attempt |-> 0]

\* the Error made of a timeout, and of a refused connection, whose message
\* names the attempt
ErrorOf(kind, attempt) ==
    [kind |-> kind, attempt |-> IF kind = "refused" THEN attempt + 1 ELSE 0]

\* log: the outcomes of the fetch calls so far (history)
IdleFetch ==
    [pc |-> "idle", maxRetries |-> 0, attempt |-> 0, lastError |-> NullError,
     thrown |-> NullError, log |-> << >>]

FetchWithRetry(maxRetries) ==
    /\ sdk.pc = "idle"
    /\ sdk' = [IdleFetch EXCEPT !.pc = "loop", !.maxRetries = maxRetries]
    /\ UNCHANGED notSdkVars

\* attempt < this.maxRetries
LoopTest(f) == f.attempt < f.maxRetries

\* one pass of the loop: fetch returns a response, is aborted by the timer,
\* fails to connect, or fails otherwise
Attempt(outcome) ==
    /\ sdk.pc = "loop"
    /\ LoopTest(sdk)
    /\ LET f == [sdk EXCEPT !.log = Append(@, outcome)] IN
       sdk' = CASE outcome = "response" -> [f EXCEPT !.pc = "returned"]
                [] outcome = "other" ->
                      [f EXCEPT !.pc = "thrown", !.thrown = ErrorOf("other", f.attempt)]
                [] OTHER ->
                      [f EXCEPT !.lastError = ErrorOf(outcome, f.attempt),
                                !.attempt = @ + 1]
    /\ UNCHANGED notSdkVars

\* the loop has ended: throw lastError
ThrowLastError ==
    /\ sdk.pc = "loop"
    /\ ~LoopTest(sdk)
    /\ sdk' = [sdk EXCEPT !.pc = "thrown", !.thrown = sdk.lastError]
    /\ UNCHANGED notSdkVars

\* the caller has the response or the error
FetchDone ==
    /\ sdk.pc \in {"returned", "thrown"}
    /\ sdk' = IdleFetch
    /\ UNCHANGED notSdkVars

InitSdk == sdk = IdleFetch

\* ------------------------------------------------------------------------
\* The call statistics of the REST API: recordCall and queryProvider
\* (rest-api.cjs)
\* ------------------------------------------------------------------------
\* minTimeMs of a provider without a successful call
Infinity == 1000000

StatCallers == 1..MaxInFlight

\* the record initProviderStats creates
NewProviderStats ==
    [totalCalls |-> 0, totalErrors |-> 0, totalTimeMs |-> 0, avgTimeMs |-> 0,
     minTimeMs |-> Infinity, maxTimeMs |-> 0, last5 |-> << >>]

\* initProviderStats(provider): a record for a provider that has none
initProviderStats(providers, p) ==
    [q \in DOMAIN providers \cup {p} |->
        IF q \in DOMAIN providers THEN providers[q] ELSE NewProviderStats]

\* Math.round(a / b) of non-negative numbers
Round(a, b) == (2 * a + b) \div (2 * b)

\* push, then shift beyond five entries
PushLast5(last5, timeMs) ==
    LET l == Append(last5, timeMs) IN IF Len(l) > 5 THEN Tail(l) ELSE l

\* recordCall whose error branch does not return
recordCallNoReturn(st, p, timeMs, isError) ==
    LET providers == initProviderStats(st.providers, p)
        d == providers[p]
        e == IF isError THEN 1 ELSE 0
        totalTimeMs == d.totalTimeMs + timeMs
        totalCalls == d.totalCalls + 1
    IN [st EXCEPT
          !.totalRequests = @ + 1,
          !.totalErrors = @ + e,
          !.providers = [providers EXCEPT ![p] =
              [totalCalls |-> totalCalls,
               totalErrors |-> d.totalErrors + e,
               totalTimeMs |-> totalTimeMs,
               avgTimeMs |-> IF totalCalls > d.totalErrors + e
                             THEN Round(totalTimeMs, totalCalls - (d.totalErrors + e))
                             ELSE d.avgTimeMs,
               minTimeMs |-> Min(timeMs, d.minTimeMs),
               maxTimeMs |-> IF timeMs > d.maxTimeMs THEN timeMs ELSE d.maxTimeMs,
               last5 |-> PushLast5(d.last5, timeMs)]]]

\* recordCall(provider, timeMs, isError)
recordCall(st, p, timeMs, isError) ==
    LET providers == initProviderStats(st.providers, p)
        d == providers[p]
        totalTimeMs == d.totalTimeMs + timeMs
        totalCalls == d.totalCalls + 1
    IN IF isError
       THEN [st EXCEPT
               !.totalRequests = @ + 1,
               !.totalErrors = @ + 1,
               !.providers = [providers EXCEPT ![p].totalCalls = totalCalls,
                                               ![p].totalErrors = @ + 1]]
       ELSE [st EXCEPT
               !.totalRequests = @ + 1,
               !.providers = [providers EXCEPT ![p] =
                   [totalCalls |-> totalCalls,
                    totalErrors |-> d.totalErrors,
                    totalTimeMs |-> totalTimeMs,
                    avgTimeMs |-> Round(totalTimeMs, totalCalls - d.totalErrors),
                    minTimeMs |-> Min(timeMs, d.minTimeMs),
                    maxTimeMs |-> IF timeMs > d.maxTimeMs THEN timeMs ELSE d.maxTimeMs,
                    last5 |-> PushLast5(d.last5, timeMs)]]]

IdleStatCall == [pc |-> "idle", provider |-> ""]

\* an outcome of a finished call, in the order in which the calls finished
Outcome(p, isError, timeMs) == [provider |-> p, isError |-> isError, timeMs |-> timeMs]

\* queryProvider(provider, message) up to its first await
StatQueryProvider(c, p) ==
    /\ restStats.calls[c].pc = "idle"
    /\ restStats.started < MaxStatCalls
    /\ restStats' = [restStats EXCEPT
                       !.started = @ + 1,
                       !.stats.providers = initProviderStats(@, p),
                       !.calls[c] = [pc |-> "sendMessage", provider |-> p]]
    /\ UNCHANGED notStatsVars

\* the sendMessage request returns: without success the call throws into
\* its catch block
StatSendResult(c, success) ==
    LET p == restStats.calls[c].provider IN
    /\ restStats.calls[c].pc = "sendMessage"
    /\ restStats' =
          IF success
          THEN [restStats EXCEPT !.calls[c].pc = "getResponseWithTyping"]
          ELSE [restStats EXCEPT
                  !.stats = recordCall(@, p, 0, TRUE),
                  !.finished = Append(@, Outcome(p, TRUE, 0)),
                  !.calls[c] = IdleStatCall]
    /\ UNCHANGED notStatsVars

\* the getResponseWithTyping request is settled: with its result object
\* the call records its time and returns, a rejection goes to the catch
\* block
StatResponseResult(c, resolved, elapsed) ==
    LET p == restStats.calls[c].provider IN
    /\ restStats.calls[c].pc = "getResponseWithTyping"
    /\ restStats' =
          IF resolved
          THEN [restStats EXCEPT
                  !.stats = recordCall(@, p, elapsed, FALSE),
                  !.finished = Append(@, Outcome(p, FALSE, elapsed)),
                  !.calls[c] = IdleStatCall]
          ELSE [restStats EXCEPT
                  !.stats = recordCall(@, p, 0, TRUE),
                  !.finished = Append(@, Outcome(p, TRUE, 0)),
                  !.calls[c] = IdleStatCall]
    /\ UNCHANGED notStatsVars

\* stats as the module creates it; started and finished: the calls begun,
\* and the outcomes of the finished calls in their order
InitStats ==
    restStats = [stats |-> [totalRequests |-> 0, totalErrors |-> 0,
                            providers |-> << >>],
                 calls |-> [c \in StatCallers |-> IdleStatCall],
                 started |-> 0,
                 finished |-> << >>]

\* ------------------------------------------------------------------------
\* What the page shows: the texts the DOM extraction can return and the
\* answers a fingerprint can be taken of
\* ------------------------------------------------------------------------
OldAnswer == Rep("a", FingerprintLen + 1)

OldAnswerEdited == Cat(Rep("a", FingerprintPrefixLen), Rep("b", 1))

NewAnswer == Rep("b", 2)

DomTexts == {Empty, OldAnswer, OldAnswerEdited, NewAnswer}

MaxBlockCount == 2

\* what the fingerprint script can return while the page shows one of texts:
\* no answer block, or the number of blocks and the fingerprint of the last
BlockData(texts, counts) ==
    {[count |-> 0, fingerprint |-> Empty]}
    \cup [count : counts, fingerprint : {FingerprintOf(t) : t \in texts} \ {Empty}]

\* before the message is sent the page shows the previous answer, if any
BeforeSend == BlockData({OldAnswer}, 1..(MaxBlockCount - 1))

\* ------------------------------------------------------------------------
\* Specifications
\* ------------------------------------------------------------------------
\* the page has loaded and dom-ready has run the install script
InitPage ==
    /\ installed = TRUE
    /\ fetchWrap = [layers |-> 1, rerun |-> FALSE]
    /\ captured = Empty
    /\ isStreaming = FALSE
    /\ activeStreamId = NoStream
    /\ blocks = NoBlocks
    /\ streams = [s \in StreamIds |-> [st |-> "none", chunks |-> 0, fullText |-> Empty]]
    /\ nextStream = 1

Init ==
    /\ provider \in Providers
    /\ InitPage
    /\ InitHost
    /\ InitRouter
    /\ InitMulti
    /\ InitIpc
    /\ InitIpcServer
    /\ InitChat
    /\ InitRest
    /\ InitPaste
    /\ InitBm
    /\ InitSdk
    /\ InitStats

\* the interceptor on its own: a page whose streams overlap
DoStreamStart == StreamStart(MaxStreams)

OverlapLens == {1, 2, LateCheckMinLen + 1}

DoStreamChunk ==
    \E s \in StreamIds : \E c \in Chunks(provider, s, OverlapLens) :
        StreamChunk(s, c, MaxChunks)

DoStreamEnd == \E s \in StreamIds : StreamEnd(s)

NextInterceptor ==
    \/ InstallInterceptor
    \/ PageReload
    \/ DoStreamStart
    \/ DoStreamChunk
    \/ DoStreamEnd

SpecInterceptor == Init /\ [][NextInterceptor]_vars

\* the host's turn, the page's DOM drawn from texts
DoResetCaptureState == \E ok \in BOOLEAN : ResetCaptureState(ok)

\* after it the page shows the previous answer or already the new one
AfterSend == BlockData({OldAnswer, NewAnswer}, 1..MaxBlockCount)

\* a page that shows no answer
NoAnswer == BlockData({}, {})

DoSendToProvider(before) ==
    \E d \in before : SendToProvider(d.fingerprint, d.count)

DoGetResponseWithTypingStatus(after) ==
    \E d \in (IF provider \in {"perplexity", "claude"} THEN after ELSE NoAnswer) :
        GetResponseWithTypingStatus(d.fingerprint, d.count)

DoFastPoll == \E ok \in BOOLEAN : FastPoll(ok)

DoFastClear == \E ok \in BOOLEAN : FastClear(ok)

DoTypingCheck == \E t \in BOOLEAN : TypingCheck(t)

DoTypingWait == \E t \in BOOLEAN : TypingWait(t)

DoLateCheck == \E ok \in BOOLEAN : LateCheck(ok)

DoDomPoll(texts, after) ==
    \E ok \in BOOLEAN : \E text \in texts :
        \E cur \in (IF provider = "perplexity" /\ ok /\ text # Empty /\ ~gp.foundNewResponse
                    THEN after ELSE NoAnswer) :
            DomPoll(ok, text, cur)

NextHost(texts, before, after) ==
    \/ DoResetCaptureState
    \/ DoSendToProvider(before)
    \/ SendToProviderThrows
    \/ DoGetResponseWithTypingStatus(after)
    \/ DoFastPoll
    \/ DoTypingCheck
    \/ DoTypingWait
    \/ DoLateCheck
    \/ DoDomPoll(texts, after)
    \/ ReturnToCaller

\* network capture: one matched stream, on a page of a new conversation that
\* comes to show the new answer
NetStreams == 1

NetChunks == 1

NetLens == {1, LateCheckMinLen + 1}

NetDomTexts == {Empty, NewAnswer}

NetStreamStart == StreamStart(NetStreams)

NetStreamChunk ==
    \E s \in 1..NetStreams : \E c \in Chunks(provider, s, NetLens) :
        StreamChunk(s, c, NetChunks)

NextNetwork ==
    \/ NetStreamStart
    \/ NetStreamChunk
    \/ DoStreamEnd
    \/ DoFastClear
    \/ NextHost(NetDomTexts, NoAnswer, NoAnswer)

SpecNetwork == Init /\ [][NextNetwork]_vars

\* DOM capture: a page none of whose requests is matched by the interceptor,
\* so that the buffer stays empty and the fast path has nothing to clear
NextDom ==
    \/ InstallInterceptor
    \/ PageReload
    \/ NextHost(DomTexts, BeforeSend, AfterSend)

SpecDom == Init /\ [][NextDom]_vars

\* the router: concurrent smartQuery calls while the settings change
SettingsFiles ==
    {{}, {"other"}, {"chatgpt", "gemini"}, DefaultEnabled, Providers \cup {"other"}}

Preferences == {NoPreference, "claude", "gemini", "other"}

Responses == {"hello", "No response received"}

DoSmartQuery == \E c \in Calls : \E pref \in Preferences : SmartQuery(c, pref)

DoChatResolves == \E c \in Calls : \E r \in Responses : ChatResolves(c, r)

DoChatRejects == \E c \in Calls : ChatRejects(c)

DoSettingsChange == \E en \in SettingsFiles \ {enabled} : SettingsChange(en)

\* the router does not touch the page: one page stands for all
InitSmartRouter ==
    /\ provider = "chatgpt"
    /\ InitPage
    /\ InitHost
    /\ InitRouter
    /\ InitMulti
    /\ InitIpc
    /\ InitIpcServer
    /\ InitChat
    /\ InitRest
    /\ InitPaste
    /\ InitBm
    /\ InitSdk
    /\ InitStats

NextRouter ==
    \/ DoSmartQuery
    \/ DoChatResolves
    \/ DoChatRejects
    \/ DoSettingsChange

SpecRouter == InitSmartRouter /\ [][NextRouter]_vars

\* the parallel dispatch: any provider set, any outcome of each dispatch, in
\* any order
AnswerTexts == {"", "hello"}

ElapsedTimes == {10, 20}

ErrorMessages == {"Failed to send", "Provider not initialized"}

DoQueryMultiple == \E ps \in SUBSET Providers : QueryMultiple(ps)

DoCompareAis == \E ps \in SUBSET Names : CompareAis(ps)

DoQueryProviderResolves ==
    \E p \in Providers : \E t \in AnswerTexts : \E ms \in ElapsedTimes :
        QueryProviderResolves(p, t, ms)

DoQueryProviderRejects ==
    \E p \in Providers : \E msg \in ErrorMessages : QueryProviderRejects(p, msg)

NextMulti ==
    \/ DoSettingsChange
    \/ DoQueryMultiple
    \/ AskAllAis
    \/ DoCompareAis
    \/ DoQueryProviderResolves
    \/ DoQueryProviderRejects
    \/ QueryMultipleReturns
    \/ QueryMultipleDone

SpecMulti == InitSmartRouter /\ [][NextMulti]_vars

\* the IPC client: requests sent at any time, any lines on the socket in any
\* order (answers, repeated answers, ids never sent, lines that do not
\* parse), split into chunks anywhere, timers firing at any time
SocketLines == {Response(n) : n \in 0..(MaxRequests + 1)} \cup {NotJson}

SocketChunks == SeqsUpTo(SocketLines, MaxChunkLines)

DoData == \E lines \in SocketChunks : \E rest \in SocketLines \cup {NoLine} : Data(lines, rest)

DoDataNoLineEnd == \E rest \in SocketLines : DataNoLineEnd(rest)

DoTimeout == \E id \in RequestIds : Timeout(id)

NextIpc ==
    \/ Send
    \/ DoData
    \/ DoDataNoLineEnd
    \/ DoTimeout

SpecIpc == InitSmartRouter /\ [][NextIpc]_vars

\* the IPC server: any lines in any chunking, the actions settling in any
\* order across the data events
HostChunks == SeqsUpTo(LineKinds, MaxChunkLines)

DoHostData ==
    \E kinds \in HostChunks : \E restKind \in LineKinds \cup {"none"} :
        HostData(kinds, restKind)

DoHandleMCPRequestSettles ==
    \E h \in DataEvents : \E outcome \in {"result", "error"} :
        HandleMCPRequestSettles(h, outcome)

NextIpcServer ==
    \/ DoHostData
    \/ DoHandleMCPRequestSettles

SpecIpcServer == InitSmartRouter /\ [][NextIpcServer]_vars

\* dispatches to one provider: concurrent callers of chat and queryProvider,
\* a view that can be destroyed at any time, captures of any length
CapturedTexts == {"", "hello"}

\* the provider is switched off and on in the settings
DoProviderSwitch ==
    \E en \in {DefaultEnabled, DefaultEnabled \ {provider}} \ {enabled} : SettingsChange(en)

DoChat == \E c \in Callers : \E useCache \in BOOLEAN : Chat(c, useCache)

DoInitProvider == \E c \in Callers : InitProvider(c)

DoGetTypingStatus == \E c \in Callers : GetTypingStatus(c)

DoQueryProvider == \E c \in Callers : QueryProvider(c)

DoSendMessage == \E c \in Callers : SendMessage(c)

DoGetResponseWithTyping ==
    \E c \in Callers : \E text \in CapturedTexts : GetResponseWithTyping(c, text)

DoRequestTimeout == \E c \in Callers : RequestTimeout(c)

DoAbandonedCaptureEnds == \E d \in 1..MaxDispatches : AbandonedCaptureEnds(d)

DoDispatchDone == \E c \in Callers : DispatchDone(c)

NextChat ==
    \/ DoProviderSwitch
    \/ DoChat
    \/ DoInitProvider
    \/ DoGetTypingStatus
    \/ DoQueryProvider
    \/ DoSendMessage
    \/ DoGetResponseWithTyping
    \/ DoRequestTimeout
    \/ DoAbandonedCaptureEnds
    \/ DoDispatchDone
    \/ GenerationEnds
    \/ ViewDestroyed

SpecChat == InitSmartRouter /\ [][NextChat]_vars

\* a turn on a page that shows a previous answer and whose new answer is
\* streamed: the fingerprint of the previous answer is stored at the send
FreshStreamChunk ==
    \E c \in Chunks(provider, 1, {LateCheckMinLen + 1}) : StreamChunk(1, c, NetChunks)

NextFresh ==
    \/ NetStreamStart
    \/ FreshStreamChunk
    \/ DoStreamEnd
    \/ DoFastClear
    \/ NextHost({NewAnswer}, BeforeSend, BeforeSend)

SpecFresh == Init /\ [][NextFresh]_vars

\* the fast path on a page that can be reloaded while its answer is streamed
NextFast ==
    \/ InstallInterceptor
    \/ PageReload
    \/ NetStreamStart
    \/ FreshStreamChunk
    \/ DoStreamEnd
    \/ DoFastClear
    \/ NextHost({NewAnswer}, NoAnswer, NoAnswer)

SpecFast == Init /\ [][NextFast]_vars

\* concurrent sendToPerplexity calls
DoPasteMessage == \E s \in Senders : \E ok \in BOOLEAN : PasteMessage(s, ok)

DoVerify == \E s \in Senders : \E messageInInput, ok \in BOOLEAN : Verify(s, messageInInput, ok)

DoSubmit == \E s \in Senders : \E ok \in BOOLEAN : Submit(s, ok)

NextPaste ==
    \/ \E s \in Senders : StartSend(s)
    \/ DoPasteMessage
    \/ \E s \in Senders : RestoreClipboard(s)
    \/ DoVerify
    \/ DoSubmit
    \/ \E s \in Senders : SendReturns(s)

SpecPaste == InitSmartRouter /\ [][NextPaste]_vars

\* the BrowserManager under any sequence of its calls
NextBm ==
    \/ \E p \in Names : CreateViewCall(p)
    \/ \E p \in Names : \E ok \in BOOLEAN : ShowProvider(p, ok)
    \/ HideCurrentView
    \/ \E p \in Names : Navigate(p)
    \/ Destroy
    \/ \E p \in Providers : WebContentsDestroyed(p)
    \/ MainWindowClosed

SpecBm == InitSmartRouter /\ [][NextBm]_vars

\* the statistics: concurrent queryProvider calls to two providers
StatProviders == {"chatgpt", "claude"}

\* the elapsed times of the successful calls, in ms
StatTimes == {1, 2}

NextStats ==
    \/ \E c \in StatCallers : \E p \in StatProviders : StatQueryProvider(c, p)
    \/ \E c \in StatCallers : \E success \in BOOLEAN : StatSendResult(c, success)
    \/ \E c \in StatCallers : \E resolved \in BOOLEAN : \E t \in StatTimes :
          StatResponseResult(c, resolved, t)

SpecStats == InitSmartRouter /\ [][NextStats]_vars

\* the SDK: calls with every maxRetries option and every fetch outcome
NextSdk ==
    \/ \E maxRetries \in 0..MaxRetriesOption : FetchWithRetry(maxRetries)
    \/ \E outcome \in {"response", "timeout", "refused", "other"} : Attempt(outcome)
    \/ ThrowLastError
    \/ FetchDone

SpecSdk == InitSmartRouter /\ [][NextSdk]_vars

\* the model resolution: requests with a model name, a list or none, while
\* the settings change
MaxModels == 2

ModelFields ==
    {StringField(m) : m \in ModelInputs} \cup {ArrayField(ms) : ms \in SeqsUpTo(ModelInputs, MaxModels)}

DoHandleRoute == \E f \in ModelFields : \E hasMessage \in BOOLEAN : HandleRoute(f, hasMessage)

NextRest ==
    \/ DoHandleRoute
    \/ DoSettingsChange

SpecRest == InitSmartRouter /\ [][NextRest]_vars

\* a timer that was set fires
SpecIpcLive == SpecIpc /\ \A id \in RequestIds : WF_vars(Timeout(id))

\* ------------------------------------------------------------------------
\* Properties
\* ------------------------------------------------------------------------

\* C1: once a fast-path poll has found the interceptor installed, the
\* stream finished and the buffer non-empty, the call returns exactly the text
\* that poll read, by the network path, and never goes on to another poll or
\* to the DOM fallback.
C1_FastPathReturnsFirstCompleteText ==
    ghost.firstDone # NoRead =>
        \/ gp.pc = "fastClear"
        \/ /\ gp.pc \in {"done", "idle"}
           /\ result = [kind |-> "text", path |-> "network", text |-> ghost.firstDone]

\* a text is the answer a fingerprint was taken of: its first 200 characters
\* are the fingerprint, or it begins with the fingerprint
MatchesFingerprint(text, fp) ==
    Substring0(text, FingerprintLen) = fp \/ StartsWith(text, fp)

\* C2: for every provider, a text the DOM fallback returns (stable or at the
\* end of the poll budget) does not match the fingerprint stored before the
\* message was sent.
C2_StaleTextNeverReturned ==
    (/\ result.kind = "text" /\ result.path \in {"dom", "exhausted"}
     /\ ghost.sentFp # Empty)
    => ~MatchesFingerprint(result.text, ghost.sentFp)

ClaimedThreshold(p) == IF p = "perplexity" THEN 5 ELSE 3

C4_NoPartialAnswer ==
    (result.kind = "text" /\ result.path = "late" /\ ghost.lateStreaming)
    => ghost.fastExit = "elapsed"

\* C5: two overlapping streams, the later one active and ending with the
\* longer text: once both read loops have ended the shared buffer holds the
\* text of the later stream.  (A violation needs the two to overlap: a
\* stream that ended before the next one started writes nothing later.)
C5_BufferEndsAtLaterStream ==
    (/\ streams[1].st = "done" /\ streams[2].st = "done"
     /\ activeStreamId = 2
     /\ JsLen(streams[2].fullText) > JsLen(streams[1].fullText))
    => captured = streams[2].fullText

\* C6: while isStreaming stays true and activeStreamId stays the same, no
\* step of the interceptor makes the shared captured text shorter.
C6_LengthNonDecreasing ==
    [][(isStreaming /\ isStreaming' /\ activeStreamId' = activeStreamId)
         => JsLen(captured') >= JsLen(captured)]_vars

\* the iteration limits the claim states
ClaimedFastPolls(p) == IF p = "claude" THEN 1200 ELSE 240

ClaimedTypingWait(p) == IF p = "claude" THEN 600 ELSE 120

ClaimedDomPolls(p) == IF p \in {"claude", "perplexity"} THEN 60 ELSE 40

\* the stages of getProviderResponse in their order, and the progress of a
\* call: its stage, then the iteration of the stage's loop
Stage(pc) ==
    CASE pc = "fast" -> 1
      [] pc = "fastClear" -> 1
      [] pc = "typingCheck" -> 2
      [] pc = "typingWait" -> 3
      [] pc = "lateCheck" -> 4
      [] pc = "dom" -> 5
      [] pc = "done" -> 6
      [] OTHER -> 0

Progress(f) == Stage(f.pc) * 10000 + 2 * f.i + (IF f.pc = "fastClear" THEN 1 ELSE 0)

InGetProviderResponse(f) == Stage(f.pc) \in 1..5

C22_LoopsWithinLimits ==
    /\ gp.pc \in {"fast", "fastClear"} => gp.i < ClaimedFastPolls(provider)
    /\ gp.pc = "typingWait" => gp.i < ClaimedTypingWait(provider)
    /\ gp.pc = "dom" => gp.i < ClaimedDomPolls(provider)
    /\ gp.pc = "done" => result.kind \in {"text", "error"}
    /\ result.path \in {"exhausted", "sentinel"} => result.kind = "text"

C22_EveryStepAdvances ==
    [][InGetProviderResponse(gp) =>
          /\ Progress(gp') > Progress(gp)
          /\ Progress(gp') <= 60000 + 2 * 1200]_<<gp, ghost, result>>

LastTextOrSentinel == IF ghost.accepted # NoRead THEN ghost.accepted ELSE Sentinel

C23_ExhaustedResult ==
    result.path \in {"exhausted", "sentinel"} =>
        /\ result.kind = "text"
        /\ result.text = LastTextOrSentinel
        /\ result.path = "sentinel" <=> ghost.accepted = NoRead

C23_DomLoopEnds ==
    [][(gp.pc = "dom" /\ gp'.pc = "done") =>
          \/ result' = [kind |-> "text", path |-> "dom", text |-> ghost'.accepted]
          \/ /\ result'.kind = "error"
             /\ ghost' = ghost
          \/ /\ gp.i = ClaimedDomPolls(provider) - 1
             /\ result'.path \in {"exhausted", "sentinel"}]_vars

\* C23: the DOM loop ends in one of three ways: with a stable text; with
\* the error of a page script that could not run, no text having been read by
\* that poll; or, its last poll made without a stable text, with the last
\* text it accepted (non-empty and not taken for the previous answer) if
\* there is one and else with 'No response captured'.  The used-up budget is
\* never an error.
C23_CaptureMissIsNotAnError == []C23_ExhaustedResult /\ C23_DomLoopEnds

\* the budget is used up after the new answer was read, but not often
\* enough in a row
C23_Witness ==
    /\ gp.pc = "done"
    /\ gp.i = ClaimedDomPolls(provider) - 1
    /\ result = [kind |-> "text", path |-> "exhausted", text |-> NewAnswer]
    /\ ghost.acceptedRun < ClaimedThreshold(provider)

\* ------------------------------------------------------------------------
\* Properties of the model resolution
\* ------------------------------------------------------------------------
\* the provider names a model field asks for: every provider for 'all', the
\* preferred four for 'auto' or no model, else the names its aliases stand for
Requested(f) ==
    IF f.kind = "array" THEN {resolveModel(f.models[i]) : i \in DOMAIN f.models}
    ELSE CASE resolveModel(f.model) = "all" -> Names
           [] resolveModel(f.model) = "auto" -> Range(AutoOrder)
           [] OTHER -> {resolveModel(f.model)}

NoDuplicates(seq) == \A i, j \in DOMAIN seq : seq[i] = seq[j] => i = j

\* the first of claude, chatgpt, gemini, perplexity that is enabled
FirstEnabled(en) ==
    AutoOrder[CHOOSE i \in DOMAIN AutoOrder :
                 AutoOrder[i] \in en /\ \A j \in 1..(i - 1) : AutoOrder[j] \notin en]

\* C24: a request is dispatched only to providers enabled when its model was
\* resolved; 'auto' or no model resolves to the first enabled provider in the
\* order claude, chatgpt, gemini, perplexity; a list resolves to its enabled
\* members without duplicates, with mode single exactly when one remains; and
\* when no enabled provider matches, the result is an error and nothing is
\* dispatched
C24_ResolvesToEnabled ==
    restApi.status # 0 =>
        LET f == restApi.modelField
            en == restApi.enabled
            r == restApi.resolved
        IN /\ restApi.dispatched \subseteq en
           /\ (f.kind = "string" /\ resolveModel(f.model) = "auto" /\ Range(AutoOrder) \cap en # {})
                 => r = [mode |-> "single", providers |-> <<FirstEnabled(en)>>]
           /\ f.kind = "array" =>
                 /\ Range(r.providers) = Requested(f) \cap en
                 /\ NoDuplicates(r.providers)
                 /\ (r.mode = "single" <=> Len(r.providers) = 1)
           /\ Requested(f) \cap en = {} =>
                 r.mode = "error" /\ restApi.dispatched = {}

\* ------------------------------------------------------------------------
\* Properties of the turns of one page
\* ------------------------------------------------------------------------
\* the text holds characters that stream s delivered
WrittenBy(text, s) == \E i \in DOMAIN text : text[i][1] = StreamChar(s)

\* C25: after the capture state was reset for a turn, the text the fast path
\* returns for that turn holds nothing of a stream that was already running
\* at the reset
C25_FastPathTextIsOfThisTurn ==
    (gp.pc = "done" /\ result.kind = "text" /\ result.path = "network")
        => \A s \in ghost.earlier : ~WrittenBy(result.text, s)

\* the fingerprint the freshness check of the running call compares against:
\* the stored one during the fast path, the copy of it the fallback took
StoredFingerprint ==
    IF gp.pc \in {"fast", "fastClear"} THEN fpGlobal ELSE gp.oldFingerprint

\* C26: while getProviderResponse runs for a provider that stores a
\* fingerprint, the fingerprint its freshness check compares against is the
\* one captured before the message was submitted
C26_FingerprintIsOfBeforeSend ==
    (provider \in {"perplexity", "claude"} /\ InGetProviderResponse(gp))
        => StoredFingerprint = ghost.sentFp

\* C27: after getProviderResponse has returned an answer on the fast path, by
\* the late network check or by a stable DOM read, the stored fingerprint and
\* block count of perplexity and the stored fingerprint of claude are empty
C27_FingerprintClearedAfterCapture ==
    (gp.pc = "done" /\ result.kind = "text" /\ result.path \in {"network", "late", "dom"})
        => /\ provider \in {"perplexity", "claude"} => fpGlobal = Empty
           /\ provider = "perplexity" => fpCountGlobal = 0

\* the fast path is left for the DOM fallback
FastPathAbandoned == gp.pc \in {"fast", "fastClear"} /\ gp'.pc = "typingCheck"

\* C28: a poll of the fast path that succeeds abandons the fast path when it
\* finds the interceptor not installed; otherwise, when it finds no active
\* stream and an empty buffer, it abandons exactly if it comes after the
\* fourth poll (or is the last poll of the maximum wait); and when it finds
\* isStreaming = true it abandons only as the last poll of the maximum wait
C28_FastPathAbandoned ==
    [][FastPoll(TRUE) =>
          /\ ~installed => FastPathAbandoned
          /\ (installed /\ ~isStreaming /\ JsLen(captured) = 0) =>
                (FastPathAbandoned <=> (gp.i + 1 > 4 \/ gp.i + 1 = 2 * MaxWaitSeconds(provider)))
          /\ (installed /\ isStreaming) =>
                (FastPathAbandoned <=> gp.i + 1 = 2 * MaxWaitSeconds(provider))]_vars

\* the fifth poll found no stream and an empty buffer while the interceptor
\* was installed, and the fast path was abandoned for the DOM fallback
C28_Witness ==
    /\ ghost.fastExit = "noStream"
    /\ gp.pc = "typingCheck"
    /\ installed

\* ------------------------------------------------------------------------
\* Properties of the install script
\* ------------------------------------------------------------------------
C29_WrappedOnce == fetchWrap.layers = (IF installed THEN 1 ELSE 0)

C29_RepeatedRunKeepsState ==
    [][(installed /\ InstallInterceptor) =>
          UNCHANGED <<installed, captured, isStreaming, activeStreamId, blocks, streams>>]_vars

\* C29: however often the install script runs on one page load, window.fetch
\* is wrapped exactly once, and a repeated run leaves the captured text and
\* isStreaming as they were
C29_InstallIsIdempotent == []C29_WrappedOnce /\ C29_RepeatedRunKeepsState

\* the script ran again while a stream was active and text was captured
C29_Witness ==
    /\ fetchWrap.rerun
    /\ fetchWrap.layers = 1
    /\ isStreaming
    /\ JsLen(captured) > 0

\* ------------------------------------------------------------------------
\* Properties of the completion flag
\* ------------------------------------------------------------------------
BecomesFalse == isStreaming /\ ~isStreaming'

ActiveLoopEnds == \E s \in StreamIds : StreamEnd(s) /\ activeStreamId = s

NonActiveLoopEnds == \E s \in StreamIds : StreamEnd(s) /\ activeStreamId # s

ParsedMessageStop ==
    \E s \in StreamIds : \E c \in Chunks(provider, s, OverlapLens) :
        /\ StreamChunk(s, c, MaxChunks)
        /\ \E i \in DOMAIN c : c[i].kind = "message_stop"

\* C30: on one page load, for chatgpt, perplexity and gemini isStreaming
\* becomes false exactly in the step in which the read loop of the active
\* stream ends, and the end of another stream leaves it as it is; for claude
\* it becomes false only in a step that parses a message_stop event, and the
\* end of a read loop leaves it as it is
C30_CompletionFlag ==
    [][installed' =>
          /\ provider # "claude" =>
                /\ BecomesFalse <=> (isStreaming /\ ActiveLoopEnds)
                /\ NonActiveLoopEnds => isStreaming' = isStreaming
          /\ provider = "claude" =>
                /\ BecomesFalse => ParsedMessageStop
                /\ (ActiveLoopEnds \/ NonActiveLoopEnds) => isStreaming' = isStreaming]_vars

\* the read loop of the active stream has ended and cleared the flag while
\* an earlier stream is still being read
C30_Witness ==
    /\ provider = "chatgpt"
    /\ activeStreamId = 2
    /\ streams[2].st = "done"
    /\ streams[1].st = "reading"
    /\ ~isStreaming

\* ------------------------------------------------------------------------
\* Properties of the poll errors
\* ------------------------------------------------------------------------
\* C31: a page-script error during a poll of getProviderResponse, in the fast
\* path or in the DOM loop, does not make the call fail: no call ends with
\* the error of a poll
C31_PollErrorIsNotFatal ==
    ~(gp.pc = "done" /\ result.kind = "error" /\ result.path = "dom")

\* ------------------------------------------------------------------------
\* Properties of the paste-based send
\* ------------------------------------------------------------------------
\* C32: a sendToPerplexity call pastes once when the message is found in the
\* input and exactly twice when it is not, and a call that has pasted and
\* restored presses Enter once, whether or not the message was found
C32_OneRetryThenSubmit ==
    \A s \in Senders :
        LET f == paste.sends[s]
        IN /\ f.pastes <= 2
           /\ f.submitted <= 1
           /\ f.pc = "submitting" => f.pastes = (IF f.found THEN 1 ELSE 2)
           /\ f.pc = "sent" => f.submitted = 1 /\ f.pastes = (IF f.found THEN 1 ELSE 2)

\* a message that was never found in the input was pasted twice and submitted
C32_Witness ==
    \E s \in Senders :
        /\ paste.sends[s].pc = "sent"
        /\ ~paste.sends[s].found
        /\ paste.sends[s].pastes = 2
        /\ paste.sends[s].submitted = 1

\* C33: when a sendToPerplexity call ends, with a result or with an error,
\* the clipboard holds the text it held when the call began
C33_ClipboardRestored ==
    [][\A s \in Senders :
          (paste.sends[s].pc \notin {"sent", "failed"} /\ paste'.sends[s].pc \in {"sent", "failed"})
              => paste'.clipboard = paste.sends[s].started]_vars

\* ------------------------------------------------------------------------
\* Properties of the enabled check and of the cache
\* ------------------------------------------------------------------------
\* caller c begins a chat call on a provider that is disabled at that moment
DisabledAttempt(c) ==
    /\ chat.frames[c].pc = "idle"
    /\ chat'.frames[c].kind = "chat"
    /\ provider \notin enabled

FailsAsDisabled(c) ==
    chat'.frames[c].pc = "thrown" /\ chat'.frames[c].error = "disabled"

\* C34: an attempt on a provider that is disabled when the attempt is made
\* fails with the 'disabled' error before anything is sent
C34_DisabledAttemptFails ==
    [][\A c \in Callers : DisabledAttempt(c) => FailsAsDisabled(c)]_vars

\* C34 as the code has it: an attempt on a provider that is disabled when the
\* attempt is made sends nothing: it fails with the 'disabled' error, or it
\* returns the answer cached for the message
C34_DisabledAttemptSendsNothing ==
    [][\A c \in Callers :
          DisabledAttempt(c) =>
              /\ session' = session
              /\ \/ FailsAsDisabled(c)
                 \/ /\ chat'.frames[c].pc = "returned"
                    /\ chat'.frames[c].fromCache
                    /\ chat'.frames[c].value = chat.cache
                    /\ chat.cache # ""]_vars

\* an attempt on the disabled provider has failed as disabled
C34_Witness ==
    \E c \in Callers :
        /\ chat.frames[c].pc = "thrown"
        /\ chat.frames[c].error = "disabled"
        /\ provider \notin enabled

\* ------------------------------------------------------------------------
\* Properties of the BrowserManager
\* ------------------------------------------------------------------------
C35_ViewsInv ==
    /\ \A p \in Providers :
          /\ bm.created[p] <= 1
          /\ bm.views[p] # "none" => bm.created[p] = 1
    /\ bm.isDestroyed => bm.views = NoView /\ bm.activeProvider = "null"
    /\ bm.activeProvider # "null" =>
          bm.activeProvider \in Providers /\ bm.views[bm.activeProvider] # "none"

C35_CreateViewStep ==
    [][\A p \in Providers :
          CreateViewCall(p) =>
              /\ bm.views[p] # "none" =>
                    bm'.ret = "view" /\ bm'.views = bm.views /\ bm'.created = bm.created
              /\ bm.isDestroyed =>
                    bm'.ret = "null" /\ bm'.views = NoView /\ bm'.created = bm.created]_vars

\* C35: at most one view is ever constructed per provider; createView for a
\* provider that has a view returns it and creates nothing; after destroy()
\* there are no views, activeProvider is null and createView returns null
\* and creates nothing; activeProvider is null or a provider that has a view
C35_OneViewPerProvider == []C35_ViewsInv /\ C35_CreateViewStep

\* createView was called after destroy() on a manager that had two views
C35_Witness ==
    /\ bm.isDestroyed
    /\ bm.ret = "null"
    /\ bm.created["chatgpt"] = 1
    /\ bm.created["claude"] = 1

\* ------------------------------------------------------------------------
\* Properties of the SDK
\* ------------------------------------------------------------------------
\* C36: _fetchWithRetry makes at most maxRetries fetch calls, goes on only
\* after a timeout or a refused connection, rethrows any other error at
\* once, returns the first response, and after the last failed attempt
\* throws an Error that describes that failure, for every maxRetries >= 0
C36_BoundedRetry ==
    LET n == Len(sdk.log) IN
    /\ n <= sdk.maxRetries
    /\ \A i \in 1..(n - 1) : sdk.log[i] \in {"timeout", "refused"}
    /\ sdk.pc = "returned" => sdk.log[n] = "response"
    /\ sdk.pc = "loop" => \A i \in 1..n : sdk.log[i] \in {"timeout", "refused"}
    /\ sdk.pc = "thrown" =>
          \/ n > 0 /\ sdk.log[n] = "other" /\ sdk.thrown.kind = "other"
          \/ /\ n = sdk.maxRetries
             /\ n > 0
             /\ sdk.log[n] \in {"timeout", "refused"}
             /\ sdk.thrown = ErrorOf(sdk.log[n], n - 1)

\* the buffer holds a text that the page reports as complete
BufferComplete == installed /\ ~isStreaming /\ JsLen(captured) > 0

\* C37: once the buffer holds text and isStreaming is false, no matched
\* stream of the page is still delivering chunks into it: the text the fast
\* path takes from the buffer changes no more, until the buffer is emptied
\* for a new stream or a new page
C37_CompleteTextIsFinal ==
    [][BufferComplete => (captured' = captured \/ captured' = Empty)]_vars

\* C38: a text the DOM fallback returns as stable was read identically on the
\* last STABLE_THRESHOLD + 1 polls: an empty poll or a read rejected as stale
\* between two identical reads restarts the count
C38_StableReadsAreConsecutive ==
    (gp.pc = "done" /\ result.kind = "text" /\ result.path = "dom")
        => /\ ghost.lastRead = result.text
           /\ ghost.readRun >= STABLE_THRESHOLD(provider) + 1

\* C39: chat stores only an answer that was captured from the provider: a
\* call that is answered from the cache never gets the 'No response
\* received' sentinel of an earlier dispatch
C39_SentinelNeverServedFromCache ==
    \A c \in Callers :
        (chat.frames[c].pc = "returned" /\ chat.frames[c].fromCache)
            => chat.frames[c].value # NoResponseReceived

\* ------------------------------------------------------------------------
\* Properties of the call statistics
\* ------------------------------------------------------------------------
\* the finished calls of provider p, in their order
FinishedOf(p) == SelectSeq(restStats.finished, LAMBDA o : o.provider = p)

\* the elapsed times of the successful calls of provider p, in their order
SuccessTimes(p) ==
    LET ok == SelectSeq(FinishedOf(p), LAMBDA o : ~o.isError)
    IN [i \in 1..Len(ok) |-> ok[i].timeMs]

ErrorsOf(p) == Len(SelectSeq(FinishedOf(p), LAMBDA o : o.isError))

\* the last n entries of a sequence, all of a shorter one
LastN(seq, n) ==
    IF Len(seq) <= n THEN seq ELSE SubSeq(seq, Len(seq) - n + 1, Len(seq))

RECURSIVE SumOver(_, _, _)
SumOver(providers, field, S) ==
    IF S = {} THEN 0
    ELSE LET q == CHOOSE x \in S : TRUE
         IN providers[q][field] + SumOver(providers, field, S \ {q})

\* C40: under every interleaving of queryProvider calls each finished call
\* counts once in its provider's totalCalls, as a success or as an error;
\* the totals of stats are the sums over the providers; a provider has no
\* more errors than calls; last5 holds the times of its most recent
\* successful calls, at most five, in their order
C40_StatsAreConsistent ==
    LET st == restStats.stats
        known == DOMAIN st.providers
    IN /\ \A p \in StatProviders \ known : FinishedOf(p) = << >>
       /\ \A p \in known :
             /\ st.providers[p].totalCalls = Len(FinishedOf(p))
             /\ st.providers[p].totalErrors = ErrorsOf(p)
             /\ st.providers[p].totalErrors <= st.providers[p].totalCalls
             /\ Len(st.providers[p].last5) <= 5
             /\ st.providers[p].last5 = LastN(SuccessTimes(p), 5)
       /\ st.totalRequests = SumOver(st.providers, "totalCalls", known)
       /\ st.totalRequests = Len(restStats.finished)
       /\ st.totalErrors = SumOver(st.providers, "totalErrors", known)

\* while another call is in flight, a provider has had more than five
\* successful calls, the oldest of which left last5
C40_Witness ==
    \E p \in DOMAIN restStats.stats.providers :
        /\ Len(SuccessTimes(p)) > 5
        /\ restStats.stats.providers[p].last5 # SubSeq(SuccessTimes(p), 1, 5)
        /\ \E c \in StatCallers : restStats.calls[c].pc = "getResponseWithTyping"

\* ------------------------------------------------------------------------
\* Properties of the router
\* ------------------------------------------------------------------------
\* the order the claim states, for the providers the router has
ExpectedOrder(en, pref) ==
    LET Rest(p) == p \in en /\ p # pref
        rest == SelectSeq(<<"chatgpt", "claude", "perplexity", "gemini">>, Rest)
    IN IF pref \in Providers /\ pref \in en THEN <<pref>> \o rest ELSE rest

\* the providers of a log in the order of their first dispatch, a provider
\* again when it comes back after another one
RECURSIVE AttemptOrder(_)
AttemptOrder(log) ==
    IF log = << >> THEN << >>
    ELSE LET init == AttemptOrder(SubSeq(log, 1, Len(log) - 1))
             p == log[Len(log)].provider
         IN IF init # << >> /\ init[Len(init)] = p THEN init ELSE Append(init, p)

IsPrefix(a, b) == Len(a) <= Len(b) /\ SubSeq(b, 1, Len(a)) = a

\* the entries of a log that are dispatches to p
EntriesOf(log, p) == {i \in 1..Len(log) : log[i].provider = p}

FailedBoth(log, p) ==
    /\ Cardinality(EntriesOf(log, p)) = 2
    /\ \A i \in EntriesOf(log, p) : log[i].outcome = "failed"

\* C7: the providers a call dispatches to, in order, are a prefix of: the
\* preferred provider if it was enabled when the call started, then chatgpt,
\* claude, perplexity, gemini, the enabled ones only, each once; a call that
\* fails has gone through the whole of that order.
C7_AttemptOrder ==
    \A c \in Calls :
        LET f == calls[c]
            expected == ExpectedOrder(f.enabledAtStart, f.preferredProvider)
        IN f.pc # "idle" =>
              /\ IsPrefix(AttemptOrder(f.log), expected)
              /\ f.pc = "thrown" => AttemptOrder(f.log) = expected

\* enabled = {chatgpt, gemini}, preferred = claude: the order was
\* [chatgpt, gemini]
C7_Witness ==
    \E c \in Calls :
        /\ calls[c].pc = "thrown"
        /\ calls[c].enabledAtStart = {"chatgpt", "gemini"}
        /\ calls[c].preferredProvider = "claude"
        /\ AttemptOrder(calls[c].log) = <<"chatgpt", "gemini">>

\* C8: within one call a provider is dispatched to at most twice, the second
\* time right after its first attempt failed, and never after two failures.
C8_AtMostTwoAttempts ==
    \A c \in Calls : \A p \in Providers :
        LET log == calls[c].log
            E == EntriesOf(log, p)
        IN /\ Cardinality(E) <= 2
           /\ \A i, j \in E : i < j => (j = i + 1 /\ log[i].outcome = "failed")

\* a provider failed twice and the call went on to the next one
C8_Witness ==
    \E c \in Calls : \E p, q \in Providers :
        LET log == calls[c].log IN
        /\ p # q
        /\ FailedBoth(log, p)
        /\ \E i \in EntriesOf(log, q) : \A j \in EntriesOf(log, p) : j < i

\* C9: a returned result names the provider of the call's only successful
\* attempt, which is its last dispatch; every provider before it in the
\* order failed twice, none after it was dispatched to; the text is the answer
\* of that attempt and attempts is the number of dispatches to that provider.
C9_FirstSuccessReturned ==
    \A c \in Calls :
        LET f == calls[c]
            log == f.log
            n == Len(log)
            expected == ExpectedOrder(f.enabledAtStart, f.preferredProvider)
        IN f.pc = "returned" =>
              /\ n >= 1
              /\ log[n].outcome = "ok"
              /\ \A i \in 1..(n - 1) : log[i].outcome = "failed"
              /\ f.ret.provider = log[n].provider
              /\ f.ret.response = log[n].response
              /\ f.ret.attempts = Cardinality(EntriesOf(log, f.ret.provider))
              /\ f.ret.attempts \in {1, 2}
              /\ \E k \in 1..Len(expected) :
                    /\ expected[k] = f.ret.provider
                    /\ \A j \in 1..(k - 1) : FailedBoth(log, expected[j])
                    /\ \A j \in (k + 1)..Len(expected) : EntriesOf(log, expected[j]) = {}

\* chatgpt fails twice, claude answers "hello" at its first attempt
C9_Witness ==
    \E c \in Calls :
        /\ calls[c].pc = "returned"
        /\ calls[c].ret = [provider |-> "claude", response |-> "hello", attempts |-> 1]
        /\ FailedBoth(calls[c].log, "chatgpt")

\* the calls that gave p up, and the calls p answered
Abandoned(p) == {c \in Calls : FailedBoth(calls[c].log, p)}

Answered(p) ==
    {c \in Calls : /\ calls[c].log # << >>
                   /\ calls[c].log[Len(calls[c].log)].provider = p
                   /\ calls[c].log[Len(calls[c].log)].outcome = "ok"}

C10_CountersMatchCalls ==
    \A p \in Providers :
        /\ stats.failures[p] = Cardinality(Abandoned(p))
        /\ stats.success[p] = Cardinality(Answered(p))

C10_CountersNeverDecrease ==
    \A p \in Providers :
        /\ stats'.failures[p] >= stats.failures[p]
        /\ stats'.success[p] >= stats.success[p]

\* C10: failures[p] is the number of calls that gave p up after two failed
\* attempts, success[q] the number of calls q answered, at every moment; and
\* no step makes a counter smaller.
C10_RouterStatistics ==
    /\ []C10_CountersMatchCalls
    /\ [][C10_CountersNeverDecrease]_vars

\* two calls: both gave chatgpt up, claude answered one of them
C10_Witness ==
    /\ stats.failures["chatgpt"] = 2
    /\ stats.success["claude"] = 1
    /\ \E c \in Calls : calls[c].pc = "returned" /\ calls[c].ret.provider = "claude"
    /\ \A c \in Calls : calls[c].pc \in {"returned", "thrown"}

\* C11: a call has thrown exactly when every provider of its attempt order
\* failed both attempts (an empty order included), and what it throws is the
\* aggregate error 'All providers failed', never a provider's own error.
C11_AggregateErrorOnly ==
    \A c \in Calls :
        LET f == calls[c]
            expected == ExpectedOrder(f.enabledAtStart, f.preferredProvider)
        IN f.pc # "idle" =>
              /\ f.pc = "thrown"
                    <=> \A k \in 1..Len(expected) : FailedBoth(f.log, expected[k])
              /\ f.pc = "thrown" => f.error = "All providers failed"
              /\ f.pc # "thrown" => f.error = ""

\* a call failed after two providers had failed twice each
C11_Witness ==
    \E c \in Calls :
        /\ calls[c].pc = "thrown"
        /\ calls[c].error = "All providers failed"
        /\ FailedBoth(calls[c].log, "chatgpt")
        /\ FailedBoth(calls[c].log, "gemini")

\* ------------------------------------------------------------------------
\* Properties of the IPC client
\* ------------------------------------------------------------------------
\* C14: whatever requests are pending and in whatever order the lines
\* arrive, a resolved send() promise holds the response whose requestId is
\* the id of its request.
C14_ResolvedWithOwnResponse ==
    \A id \in RequestIds :
        ipc.promises[id].state = "resolved" =>
            ipc.promises[id].value = Response(id)

\* ids 1, 2, 3 pending together and answered 2, 1, 3: each promise holds
\* its own response
C14_Witness ==
    /\ \A id \in 1..3 : ipc.promises[id].state = "resolved"
    /\ \A id \in 1..3 : ipc.promises[id].value = Response(id)
    /\ ipcLog.op = "data"
    /\ ipcLog.lines = <<Response(1), Response(3)>>

\* the settle calls a promise has received
Settles(pr) == pr.resolves + pr.rejects

C15_SettledAtMostOnce ==
    \A id \in RequestIds :
        LET pr == ipc.promises[id] IN
        /\ Settles(pr) <= 1
        /\ id > ipc.requestId => pr.state = "none" /\ id \notin ipc.pendingRequests
        /\ id <= ipc.requestId =>
              /\ pr.state \in {"pending", "resolved", "rejected"}
              /\ pr.state = "pending" <=> id \in ipc.pendingRequests
              /\ pr.state = "pending" <=> Settles(pr) = 0
              /\ pr.state = "pending" => id \in ipc.timers
        /\ pr.state = "resolved" =>
              pr.resolves = 1 /\ pr.value = Response(id) /\ pr.error = ""
        /\ pr.state = "rejected" =>
              pr.rejects = 1 /\ pr.error = "Request timeout" /\ pr.value = NoLine

C15_EverySendSettles ==
    \A id \in RequestIds :
        (ipc.promises[id].state = "pending") ~> (ipc.promises[id].state # "pending")

C16_UnmatchedResponseDropped ==
    [][ipcLog'.op = "data" =>
         /\ ipc'.timers = ipc.timers
         /\ ipc'.requestId = ipc.requestId
         /\ \A id \in RequestIds :
               (\/ id \notin ipc.pendingRequests
                \/ \A k \in 1..Len(ipcLog'.lines) : ipcLog'.lines[k] # Response(id))
               => /\ ipc'.promises[id] = ipc.promises[id]
                  /\ id \in ipc'.pendingRequests <=> id \in ipc.pendingRequests]_vars

\* the answer to request 1 arrives after its timeout, together with a line
\* for an id never sent, while request 2 is pending
C16_Witness ==
    /\ ipcLog.op = "data"
    /\ ipcLog.lines = <<Response(1), Response(MaxRequests + 1)>>
    /\ ipc.promises[1].state = "rejected"
    /\ ipc.promises[1].rejects = 1
    /\ ipc.promises[1].resolves = 0
    /\ ipc.pendingRequests = {2}

\* ------------------------------------------------------------------------
\* Properties of the IPC server
\* ------------------------------------------------------------------------
\* no run of the data handler is waiting for an action
Quiet == \A h \in DataEvents : ipcServer.handlers[h].pc # "awaiting"

\* C17: handleMCPRequest is called at most once for a request and at most
\* one response with its requestId is written; once no handler is waiting
\* for an action, every request whose line has been received whole has been
\* performed once and has exactly one response, a result or an error.
C17_OneResponsePerRequest ==
    /\ \A id \in HostRequestIds :
          /\ ipcServer.performed[id] <= 1
          /\ Len(ipcServer.written[id]) <= 1
          /\ Len(ipcServer.written[id]) <= ipcServer.performed[id]
          /\ id \notin ipcServer.complete => ipcServer.performed[id] = 0
    /\ Quiet =>
          \A id \in ipcServer.complete :
              /\ ipcServer.performed[id] = 1
              /\ Len(ipcServer.written[id]) = 1
              /\ ipcServer.written[id][1] \in {"result", "error"}

\* request id waits in the run h of the data handler behind a request of
\* another provider whose action has not settled
WaitsBehindOtherProvider(h, id) ==
    LET f == ipcServer.handlers[h] IN
    /\ f.pc = "awaiting"
    /\ f.lines[f.idx].kind = "request"
    /\ RequestProvider(f.lines[f.idx].requestId) # RequestProvider(id)
    /\ \E k \in (f.idx + 1)..Len(f.lines) : f.lines[k] = Request(id, f.lines[k].action)

\* C21: a request whose line has been received and whose handling has not
\* started is never waiting for the action of an earlier request of another
\* provider to settle, also when both lines came in one chunk.
C21_NoWaitForOtherProvider ==
    \A id \in ipcServer.complete :
        ipcServer.performed[id] = 0 =>
            \A h \in DataEvents : ~WaitsBehindOtherProvider(h, id)

\* ------------------------------------------------------------------------
\* Properties of a dispatch
\* ------------------------------------------------------------------------
\* C18: a dispatch during which the host failed sendMessage or
\* getResponseWithTyping with 'not initialized' does not return a result to
\* its caller.
C18_HostFailureIsAnError ==
    \A c \in Callers :
        chat.frames[c].hostFailed => chat.frames[c].pc # "returned"

\* C19: at most one send-and-capture cycle is in flight on the provider's
\* session.
C19_OneCycleInFlight == Cardinality(session.cycles) <= 1

\* C20: chat has written its sendMessage request only after a
\* getTypingStatus check that returned not typing.
C20_SendOnlyAfterNotTyping ==
    \A c \in Callers :
        LET f == chat.frames[c] IN
        (f.kind = "chat" /\ f.pc \in {"sending", "capturing"}) =>
            f.checks >= 1 /\ ~f.typingCheck

\* C20, as the code has it: chat has written its sendMessage request only
\* after a getTypingStatus check that returned not typing, or after six
\* checks in a row, a second apart, that all returned typing; a chat that has
\* not written it yet has made at most five checks, all typing.
C20_SendAfterBoundedWait ==
    \A c \in Callers :
        LET f == chat.frames[c] IN
        /\ (f.kind = "chat" /\ f.pc \in {"sending", "capturing"}) =>
              /\ f.checks >= 1
              /\ \/ ~f.typingCheck
                 \/ f.checks = 6 /\ f.waitCount = 5
        /\ (f.kind = "chat" /\ f.pc = "checking") =>
              /\ f.checks <= 5
              /\ f.checks >= 1 => f.typingCheck /\ f.waitCount = f.checks - 1

\* the message is sent after the sixth check found the page still typing
C20_Witness ==
    \E c \in Callers :
        /\ chat.frames[c].kind = "chat"
        /\ chat.frames[c].pc = "capturing"
        /\ chat.frames[c].typingCheck
        /\ chat.frames[c].checks = 6
        /\ chat.frames[c].dispatch \in session.cycles

\* ------------------------------------------------------------------------
\* Properties of the parallel dispatch
\* ------------------------------------------------------------------------
\* C12: whichever other providers fail, and in whatever order the dispatches
\* settle, a provider whose own dispatch succeeded has its answer in the
\* results from then on and in what the call returns; a failure never ends
\* the call for the others.
C12_FailureLeavesOthersAlone ==
    /\ qm.pc # "rejected"
    /\ \A p \in qm.models :
          qm.outcome[p].kind = "ok" =>
             /\ qm.results[p] = TextEntry(qm.outcome[p].text)
             /\ qm.pc = "returned" => qm.ret.results[p] = TextEntry(qm.outcome[p].text)

\* dispatchAll([chatgpt, claude]) with chatgpt throwing returns claude's
\* answer
C12_Witness ==
    /\ qm.pc = "returned"
    /\ qm.tool = "compare_ais"
    /\ qm.models = {"chatgpt", "claude"}
    /\ qm.outcome["chatgpt"].kind = "failed"
    /\ qm.ret.results["claude"] = TextEntry("hello")

\* C13: the call returns only when every requested dispatch has settled; the
\* returned results and timings have an entry for exactly the requested
\* providers, text and elapsed time for a success, null and the error for a
\* failure; the call never rejects.
C13_OneEntryPerProvider ==
    /\ qm.pc # "rejected"
    /\ (qm.pc = "returned" /\ qm.tool = "queryMultiple") =>
          /\ qm.ret.models = qm.models
          /\ \A p \in Providers :
                LET o == qm.outcome[p]
                    r == qm.ret.results[p]
                    t == qm.ret.timings[p]
                IN /\ p \notin qm.models => (r = Unset /\ t = Unset)
                   /\ p \in qm.models =>
                        \/ o.kind = "ok" /\ r = TextEntry(o.text) /\ t = TimeEntry(o.ms)
                        \/ o.kind = "failed" /\ r = NullEntry /\ t = ErrorEntry(o.error)

\* three providers requested, one failed, two answered: three entries
C13_Witness ==
    /\ qm.pc = "returned"
    /\ qm.tool = "queryMultiple"
    /\ qm.models = {"chatgpt", "claude", "gemini"}
    /\ qm.ret.results["chatgpt"] = NullEntry
    /\ qm.ret.timings["chatgpt"] = ErrorEntry("Failed to send")
    /\ qm.ret.results["claude"] = TextEntry("hello")
    /\ qm.ret.timings["claude"] = TimeEntry(10)
    /\ qm.ret.results["gemini"] = TextEntry("")

====
